---------------------------- MODULE Spec2Model ----------------------------
(***************************************************************************)
(* Model of SafariContentBlockerConverter (filter-rule-builder.js): the    *)
(* per-rule translation of AdGuard rules into Safari content blocker       *)
(* entries, the grouping pipeline of convertLines, the CSS exception and   *)
(* compaction passes, and createConversionResult / convertArray.           *)
(*                                                                         *)
(* Strings the code inspects character by character (url filters, domain   *)
(* names, selectors, url rule texts) are sequences of one-character        *)
(* strings.  Strings the code only compares or copies (rule texts, error   *)
(* causes) are TLA+ strings.  An absent or empty JS string is <<>>.        *)
(* Objects with optional keys (trigger, action) are functions whose DOMAIN *)
(* is the set of keys present.  Bit masks are sets of bit names.           *)
(***************************************************************************)
EXTENDS Integers, Sequences, FiniteSets, TLC

VARIABLES
    pc,                   \* where the convertArray call in progress stands
    rules, rulesNull,     \* convertArray's argument rules (rulesNull: it is null)
    limit, optimize,      \* convertArray's arguments limit and optimize
    regexConfiguration,   \* adguard.rules.SimpleRegex.regexConfiguration
    prevRegexStartUrl, prevRegexSeparator,
    agRules, badFilterExceptions,
    iAg,                  \* the loop variable i of convertLines' second loop
    contentBlocker, cssBlocking, cssExceptions,
    agPos,                \* bookkeeping: agPos[k] is the position in rules of agRules[k]
    outcome, returned,    \* how the call ended, and the object it returned
    arg, out              \* input and output of a single function applied on its own

vars == <<pc, rules, rulesNull, limit, optimize, regexConfiguration,
          prevRegexStartUrl, prevRegexSeparator, agRules, badFilterExceptions, iAg,
          contentBlocker, cssBlocking, cssExceptions, agPos, outcome, returned, arg, out>>

(***************************************************************************)
(* Character classes and string helpers                                    *)
(***************************************************************************)
LowerOf ==
    [A |-> "a", B |-> "b", C |-> "c", D |-> "d", E |-> "e", F |-> "f", G |-> "g",
     H |-> "h", I |-> "i", J |-> "j", K |-> "k", L |-> "l", M |-> "m", N |-> "n",
     O |-> "o", P |-> "p", Q |-> "q", R |-> "r", S |-> "s", T |-> "t", U |-> "u",
     V |-> "v", W |-> "w", X |-> "x", Y |-> "y", Z |-> "z"]

UpperLetters == DOMAIN LowerOf

LowerLetters == {LowerOf[c] : c \in UpperLetters}

Digits == {"0", "1", "2", "3", "4", "5", "6", "7", "8", "9"}

AlphaNum == UpperLetters \cup LowerLetters \cup Digits

\* the characters outside \x00-\x7F that the model's inputs use
NonAscii == {"é"}

ToLowerChar(c) == IF c \in UpperLetters THEN LowerOf[c] ELSE c

ToLowerCase(s) == [i \in 1..Len(s) |-> ToLowerChar(s[i])]

StartWith(s, p) == Len(s) >= Len(p) /\ SubSeq(s, 1, Len(p)) = p

\* String.prototype.indexOf(p, from), 0-based, -1 when absent
IndexOfFrom(s, p, from) ==
    LET hits == {i \in from..(Len(s) - Len(p)) : SubSeq(s, i + 1, i + Len(p)) = p}
    IN  IF hits = {} THEN -1 ELSE CHOOSE i \in hits : \A j \in hits : i <= j

IndexOf(s, p) == IndexOfFrom(s, p, 0)

\* String.prototype.substring(from, to), 0-based, to exclusive
Substring(s, from, to) == SubSeq(s, from + 1, to)

Reverse(s) == [i \in 1..Len(s) |-> s[Len(s) + 1 - i]]

RECURSIVE Flatten(_)
Flatten(ss) == IF ss = <<>> THEN <<>> ELSE Head(ss) \o Flatten(Tail(ss))

\* Array.prototype.join(', ')
RECURSIVE JoinCommaSpace(_)
JoinCommaSpace(ss) ==
    IF ss = <<>> THEN <<>>
    ELSE IF Len(ss) = 1 THEN ss[1]
    ELSE JoinCommaSpace(SubSeq(ss, 1, Len(ss) \div 2)) \o <<",", " ">>
         \o JoinCommaSpace(SubSeq(ss, (Len(ss) \div 2) + 1, Len(ss)))

SeqToSet(s) == {s[i] : i \in 1..Len(s)}

\* adguard.utils.url.toPunyCode: ASCII names are returned as they are, a
\* name with non-ASCII characters becomes an xn-- name
ToPunyCode(d) ==
    IF \A i \in 1..Len(d) : d[i] \notin NonAscii THEN d
    ELSE <<"x", "n", "-", "-">> \o SelectSeq(d, LAMBDA c : c \notin NonAscii)


(***************************************************************************)
(* Converter constants                                                     *)
(***************************************************************************)
MAX_SELECTORS_PER_WIDE_RULE == 250

ANY_URL_TEMPLATES == {<<"|", "|", "*">>, <<>>, <<"*">>, <<"|", "*">>}

URL_FILTER_ANY_URL ==
    <<"^", "[", "h", "t", "p", "s", "w", "]", "+", ":", "\\", "/", "\\", "/">>

URL_FILTER_WS_ANY_URL == <<"^", "w", "s", "s", "?", ":", "\\", "/", "\\", "/">>

URL_FILTER_CSS_RULES == <<".", "*">>

URL_FILTER_REGEXP_START_URL ==
    URL_FILTER_ANY_URL \o <<"(", "[", "a", "-", "z", "0", "-", "9", "-", "]", "+", "\\", ".", ")", "?">>

URL_FILTER_REGEXP_SEPARATOR == <<"[", "/", ":", "&", "?", "]", "?">>

(***************************************************************************)
(* The rule engine's types the converter reads (UrlFilterRule.contentTypes *)
(* and UrlFilterRule.options): a mask is the set of its bits.              *)
(***************************************************************************)
ContentTypeBits ==
    {"OTHER", "SCRIPT", "IMAGE", "STYLESHEET", "OBJECT", "SUBDOCUMENT",
     "XMLHTTPREQUEST", "OBJECT_SUBREQUEST", "MEDIA", "FONT", "WEBSOCKET", "WEBRTC"}

ContentTypeALL == ContentTypeBits

DOCUMENT_WHITELIST == {"ELEMHIDE", "CONTENT", "URLBLOCK", "JSINJECT"}

\* a rule object with every field the converter reads; a field a class does
\* not have holds the value JS reads as falsy
BaseRule ==
    [kind |-> "Url", ruleText |-> "", whiteListRule |-> FALSE, isImportant |-> FALSE,
     isBadFilter |-> FALSE, badFilter |-> "", convertedRuleText |-> "",
     urlRuleText |-> <<>>, isRegexRule |-> FALSE, urlRegExp |-> <<>>,
     permittedContentType |-> ContentTypeALL, restrictedContentType |-> {},
     enabledOptions |-> {}, checkThirdParty |-> FALSE, thirdParty |-> FALSE,
     matchCase |-> FALSE, blockPopups |-> FALSE, csp |-> FALSE, replace |-> FALSE,
     permittedDomain |-> <<>>, permittedDomains |-> <<>>,
     restrictedDomain |-> <<>>, restrictedDomains |-> <<>>,
     cssSelector |-> <<>>, isInjectRule |-> FALSE, extendedCss |-> FALSE]

\* UrlFilterRule.prototype.checkContentTypeMask
CheckContentTypeMask(rule, bit) ==
    IF rule.permittedContentType = ContentTypeALL /\ rule.restrictedContentType = {}
    THEN TRUE
    ELSE /\ (rule.permittedContentType = ContentTypeALL \/ bit \in rule.permittedContentType)
         /\ bit \notin rule.restrictedContentType

\* UrlFilterRule.prototype.isDocumentWhiteList
IsDocumentWhiteList(rule) == DOCUMENT_WHITELIST \subseteq rule.enabledOptions

(***************************************************************************)
(* AGRuleConverter.  A function that may throw returns                     *)
(* [threw, cause, value]: value is meaningful only when threw is FALSE.    *)
(***************************************************************************)
Ok(v) == [threw |-> FALSE, cause |-> "", value |-> v]

\* v named for the rest of a function body: const x = v; F(x)
With(v, F(_)) == F(v)

\* the statements F that follow a call r: they run unless r threw
Then(r, F(_)) == IF r.threw THEN r ELSE F(r.value)

Throw(c) == [threw |-> TRUE, cause |-> c, value |-> <<>>]

Has(obj, key) == key \in DOMAIN obj

SetKey(obj, key, val) == (key :> val) @@ obj

DeleteKey(obj, key) == [k \in DOMAIN obj \ {key} |-> obj[k]]

\* while (iDomains--) walks the list from its last element to its first
PunyDomains(domains) ==
    LET kept == SelectSeq(Reverse(domains), LAMBDA d : d # <<>>)
    IN  [i \in 1..Len(kept) |-> ToPunyCode(ToLowerCase(kept[i]))]

parseDomains(rule) ==
    [included |->
        IF rule.permittedDomain # <<>>
        THEN <<ToPunyCode(ToLowerCase(rule.permittedDomain))>>
        ELSE PunyDomains(rule.permittedDomains),
     excluded |->
        IF rule.restrictedDomain # <<>>
        THEN <<ToPunyCode(ToLowerCase(rule.restrictedDomain))>>
        ELSE PunyDomains(rule.restrictedDomains)]

addThirdParty(trigger, rule) ==
    IF rule.checkThirdParty
    THEN SetKey(trigger, "load-type",
                IF rule.thirdParty THEN <<"third-party">> ELSE <<"first-party">>)
    ELSE trigger

addMatchCase(trigger, rule) ==
    IF rule.matchCase THEN SetKey(trigger, "url-filter-is-case-sensitive", TRUE)
    ELSE trigger

writeDomainOptions(included, excluded, trigger) ==
    IF Len(included) > 0 /\ Len(excluded) > 0
    THEN Throw("Safari does not support both permitted and restricted domains")
    ELSE LET t1 == IF Len(included) > 0 THEN SetKey(trigger, "if-domain", included)
                   ELSE trigger
             t2 == IF Len(excluded) > 0 THEN SetKey(t1, "unless-domain", excluded)
                   ELSE t1
         IN  Ok(t2)

addDomainOptions(trigger, rule) ==
    With(parseDomains(rule), LAMBDA d : writeDomainOptions(d.included, d.excluded, trigger))

setWhiteList(rule, result) ==
    IF rule.whiteListRule
    THEN [result EXCEPT !.action = SetKey(@, "type", "ignore-previous-rules")]
    ELSE result

hasContentType(rule, contentType) == CheckContentTypeMask(rule, contentType)

isContentType(rule, contentType) == rule.permittedContentType = {contentType}

isSingleOption(rule, option) == rule.enabledOptions = {option}

\* the list of types with popup pushed after the others instead of
\* replacing them
ResourceTypesPopupPushed(rule) ==
    LET pick(cond, name) == IF cond THEN <<name>> ELSE <<>>
    IN  pick(hasContentType(rule, "IMAGE"), "image")
        \o pick(hasContentType(rule, "STYLESHEET"), "style-sheet")
        \o pick(hasContentType(rule, "SCRIPT"), "script")
        \o pick(hasContentType(rule, "MEDIA"), "media")
        \o pick(hasContentType(rule, "XMLHTTPREQUEST")
                  \/ hasContentType(rule, "OTHER")
                  \/ hasContentType(rule, "WEBSOCKET"), "raw")
        \o pick(hasContentType(rule, "FONT"), "font")
        \o pick(hasContentType(rule, "SUBDOCUMENT"), "document")
        \o pick(rule.blockPopups, "popup")

ResourceTypes(rule) ==
    LET pick(cond, name) == IF cond THEN <<name>> ELSE <<>>
    IN  IF rule.blockPopups THEN <<"popup">>
        ELSE pick(hasContentType(rule, "IMAGE"), "image")
             \o pick(hasContentType(rule, "STYLESHEET"), "style-sheet")
             \o pick(hasContentType(rule, "SCRIPT"), "script")
             \o pick(hasContentType(rule, "MEDIA"), "media")
             \o pick(hasContentType(rule, "XMLHTTPREQUEST")
                       \/ hasContentType(rule, "OTHER")
                       \/ hasContentType(rule, "WEBSOCKET"), "raw")
             \o pick(hasContentType(rule, "FONT"), "font")
             \o pick(hasContentType(rule, "SUBDOCUMENT"), "document")

addResourceType(rule, result) ==
    IF rule.permittedContentType = ContentTypeALL /\ rule.restrictedContentType = {}
    THEN Ok(result)
    ELSE IF isContentType(rule, "OBJECT")
    THEN Throw("$object content type is not yet supported")
    ELSE IF isContentType(rule, "OBJECT_SUBREQUEST")
    THEN Throw("$object_subrequest content type is not yet supported")
    ELSE IF isContentType(rule, "WEBRTC")
    THEN Throw("$webrtc content type is not yet supported")
    ELSE IF isSingleOption(rule, "JSINJECT")
    THEN Throw("$jsinject rules are ignored.")
    ELSE IF rule.replace
    THEN Throw("$replace rules are ignored.")
    ELSE With(ResourceTypes(rule), LAMBDA types :
             IF Len(types) > 0
             THEN Ok([result EXCEPT !.trigger = SetKey(@, "resource-type", types)])
             ELSE Ok(result))

\* SimpleRegex.createRegexText under the current regexConfiguration
RegexSpecialChars == {".", "?", "+", "$", "{", "}", "(", ")", "[", "]", "/", "\\"}

RECURSIVE EscapeMask(_)
EscapeMask(s) ==
    IF s = <<>> THEN <<>>
    ELSE (IF Head(s) = "*" THEN <<".", "*">>
          ELSE IF Head(s) = "^" THEN regexConfiguration.regexSeparator
          ELSE IF Head(s) \in RegexSpecialChars THEN <<"\\", Head(s)>>
          ELSE <<Head(s)>>) \o EscapeMask(Tail(s))

CreateRegexText(str) ==
    IF str \in {<<"|", "|">>, <<"|">>, <<"*">>} THEN <<".", "*">>
    ELSE With(IF str # <<>> /\ str[Len(str)] = "|" THEN 1 ELSE 0, LAMBDA endsPipe :
         (IF StartWith(str, <<"|", "|">>)
          THEN regexConfiguration.regexStartUrl \o EscapeMask(SubSeq(str, 3, Len(str) - endsPipe))
          ELSE IF StartWith(str, <<"|">>)
          THEN <<"^">> \o EscapeMask(SubSeq(str, 2, Len(str) - endsPipe))
          ELSE EscapeMask(SubSeq(str, 1, Len(str) - endsPipe)))
         \o (IF endsPipe = 1 THEN <<"$">> ELSE <<>>))

\* UrlFilterRule.prototype.getUrlRegExpSource
GetUrlRegExpSource(rule) ==
    IF rule.isRegexRule THEN rule.urlRegExp ELSE CreateRegexText(rule.urlRuleText)

\* lines 422-437 without the test of an empty source
UrlFilterFromSourceUnchecked(rule, urlRegExpSource) ==
    IF /\ rule.permittedContentType = {"WEBSOCKET"}
       /\ IndexOf(urlRegExpSource, <<"^">>) # 0
       /\ IndexOf(urlRegExpSource, <<"w", "s">>) # 0
    THEN URL_FILTER_WS_ANY_URL \o <<".", "*">> \o urlRegExpSource
    ELSE urlRegExpSource

\* lines 422-437
UrlFilterFromSource(rule, urlRegExpSource) ==
    IF urlRegExpSource = <<>>
    THEN URL_FILTER_ANY_URL
    ELSE IF /\ rule.permittedContentType = {"WEBSOCKET"}
            /\ IndexOf(urlRegExpSource, <<"^">>) # 0
            /\ IndexOf(urlRegExpSource, <<"w", "s">>) # 0
    THEN URL_FILTER_WS_ANY_URL \o <<".", "*">> \o urlRegExpSource
    ELSE urlRegExpSource

createUrlFilterString(rule) ==
    IF rule.urlRuleText \in ANY_URL_TEMPLATES
    THEN IF rule.permittedContentType = {"WEBSOCKET"} THEN URL_FILTER_WS_ANY_URL
         ELSE URL_FILTER_ANY_URL
    ELSE IF rule.isRegexRule /\ rule.urlRegExp # <<>>
    THEN rule.urlRegExp
    ELSE UrlFilterFromSource(rule, GetUrlRegExpSource(rule))

\* /^[a-zA-Z0-9][a-zA-Z0-9-.]*[a-zA-Z0-9]\.[a-zA-Z-]{2,}$/.test(domain): the
\* last class has no dot, so the \. of the pattern is the last dot of the name
IsDomainName(d) ==
    LET dots == {i \in 1..Len(d) : d[i] = "."}
        p == CHOOSE i \in dots : \A j \in dots : j <= i
    IN  /\ dots # {}
        /\ Len(d) - p >= 2
        /\ \A i \in (p + 1)..Len(d) : d[i] \in UpperLetters \cup LowerLetters \cup {"-"}
        /\ p >= 3
        /\ d[1] \in AlphaNum
        /\ d[p - 1] \in AlphaNum
        /\ \A i \in 2..(p - 2) : d[i] \in AlphaNum \cup {"-", "."}

RuleDomainPrefixes ==
    << <<"h", "t", "t", "p", ":", "/", "/", "w", "w", "w", ".">>,
       <<"h", "t", "t", "p", "s", ":", "/", "/", "w", "w", "w", ".">>,
       <<"h", "t", "t", "p", ":", "/", "/">>,
       <<"h", "t", "t", "p", "s", ":", "/", "/">>,
       <<"|", "|">>,
       <<"/", "/">> >>

\* the first of the prefixes ruleText starts with, from number k on
RECURSIVE PrefixEnd(_, _)
PrefixEnd(ruleText, k) ==
    IF k > Len(RuleDomainPrefixes) THEN 0
    ELSE IF StartWith(ruleText, RuleDomainPrefixes[k]) THEN Len(RuleDomainPrefixes[k])
    ELSE PrefixEnd(ruleText, k + 1)

RuleDomainStart(ruleText) ==
    With(IndexOf(ruleText, <<"d", "o", "m", "a", "i", "n", "=">>), LAMBDA domainIndex :
        IF domainIndex > -1 /\ IndexOf(ruleText, <<"$">>) > -1
        THEN domainIndex + 7
        ELSE PrefixEnd(ruleText, 1))

\* the index of the first "/" from startIndex on, else of the first "^", else -1
RuleDomainEnd(ruleText, startIndex) ==
    With(IndexOfFrom(ruleText, <<"/">>, startIndex), LAMBDA slash :
        IF slash >= 0 THEN slash ELSE IndexOfFrom(ruleText, <<"^">>, startIndex))

\* the result is null (isNull), or {domain, path} where path may be null
parseRuleDomain(ruleText) ==
    With(RuleDomainStart(ruleText), LAMBDA startIndex :
    With(RuleDomainEnd(ruleText, startIndex), LAMBDA symbolIndex :
    With(IF symbolIndex = -1 THEN Substring(ruleText, startIndex, Len(ruleText))
         ELSE Substring(ruleText, startIndex, symbolIndex), LAMBDA domain :
        IF ~IsDomainName(domain)
        THEN [isNull |-> TRUE, domain |-> <<>>, pathIsNull |-> TRUE, path |-> <<>>]
        ELSE [isNull |-> FALSE, domain |-> ToLowerCase(ToPunyCode(domain)),
              pathIsNull |-> symbolIndex = -1,
              path |-> IF symbolIndex = -1 THEN <<>>
                       ELSE Substring(ruleText, symbolIndex, Len(ruleText))])))

convertCssFilterRule(rule) ==
    IF rule.isInjectRule
    THEN Throw("CSS-injection rule cannot be converted")
    ELSE IF rule.extendedCss
    THEN Throw("Extended CSS rule cannot be converted")
    ELSE With(setWhiteList(rule,
                  [trigger |-> ("url-filter" :> URL_FILTER_CSS_RULES),
                   action |-> ("type" :> "css-display-none"
                               @@ "selector" :> rule.cssSelector)]), LAMBDA result :
         Then(addDomainOptions(result.trigger, rule), LAMBDA trigger :
             Ok([result EXCEPT !.trigger = trigger])))

\* validateUrlBlockingRule without its test of action.type
validateUrlBlockingRuleAnyAction(rule) ==
    IF /\ Has(rule.trigger, "resource-type")
       /\ "document" \in SeqToSet(rule.trigger["resource-type"])
       /\ ~Has(rule.trigger, "if-domain")
       /\ (~Has(rule.trigger, "load-type")
             \/ "third-party" \notin SeqToSet(rule.trigger["load-type"]))
    THEN Throw("Document blocking rules are allowed only along with third-party or if-domain modifiers")
    ELSE Ok(rule)

validateUrlBlockingRule(rule) ==
    IF /\ rule.action["type"] = "block"
       /\ Has(rule.trigger, "resource-type")
       /\ "document" \in SeqToSet(rule.trigger["resource-type"])
       /\ ~Has(rule.trigger, "if-domain")
       /\ (~Has(rule.trigger, "load-type")
             \/ "third-party" \notin SeqToSet(rule.trigger["load-type"]))
    THEN Throw("Document blocking rules are allowed only along with third-party or if-domain modifiers")
    ELSE Ok(rule)

isDocumentRule(r) == IsDocumentWhiteList(r)

isUrlBlockRule(r) == isSingleOption(r, "URLBLOCK") \/ isSingleOption(r, "GENERICBLOCK")

isCssExceptionRule(r) == isSingleOption(r, "GENERICHIDE") \/ isSingleOption(r, "ELEMHIDE")

\* lines 577-608, result being the entry after the delete of line 579
WhiteListDomain(rule, result) ==
    With(parseRuleDomain(rule.urlRuleText), LAMBDA parseDomainResult :
        IF /\ ~parseDomainResult.isNull
           /\ ~parseDomainResult.pathIsNull
           /\ parseDomainResult.path # <<"^">>
           /\ parseDomainResult.path # <<"/">>
        THEN Ok(result)
        ELSE IF parseDomainResult.isNull
        THEN Ok(result)
        ELSE Then(writeDomainOptions(<<parseDomainResult.domain>>, <<>>, result.trigger),
                  LAMBDA trigger :
                      Ok([result EXCEPT !.trigger =
                             DeleteKey(SetKey(trigger, "url-filter", URL_FILTER_ANY_URL),
                                       "resource-type")])))

checkWhiteListExceptions(rule, result) ==
    IF ~(rule.whiteListRule
           /\ (isDocumentRule(rule) \/ isUrlBlockRule(rule) \/ isCssExceptionRule(rule)))
    THEN Ok(result)
    ELSE WhiteListDomain(rule,
             IF isDocumentRule(rule)
             THEN [result EXCEPT !.trigger = DeleteKey(@, "resource-type")]
             ELSE result)

MetaChars == {"b", "B", "d", "D", "f", "n", "r", "s", "S", "t", "v", "w", "W"}

\* /\{[0-9,]+\}/
HasQuantifierBraces(regExp) ==
    \E a \in 1..Len(regExp) :
        /\ regExp[a] = "{"
        /\ \E b \in (a + 2)..Len(regExp) :
              /\ regExp[b] = "}"
              /\ \A k \in (a + 1)..(b - 1) : regExp[k] \in Digits \cup {","}

\* /[^\\]+\|+\S*/
HasPipe(regExp) == \E a \in 2..Len(regExp) : regExp[a] = "|" /\ regExp[a - 1] # "\\"

\* /[^\x00-\x7F]/
HasNonAscii(regExp) == \E a \in 1..Len(regExp) : regExp[a] \in NonAscii

\* /\(\?!.*\)/
HasNegativeLookahead(regExp) ==
    \E a \in 1..(Len(regExp) - 3) :
        /\ SubSeq(regExp, a, a + 2) = <<"(", "?", "!">>
        /\ \E b \in (a + 3)..Len(regExp) : regExp[b] = ")"

\* /[^\\]\\[bBdDfnrsStvwW]/
HasMetaChar(regExp) ==
    \E a \in 1..(Len(regExp) - 2) :
        regExp[a] # "\\" /\ regExp[a + 1] = "\\" /\ regExp[a + 2] \in MetaChars

validateRegExp(regExp) ==
    IF HasQuantifierBraces(regExp)
    THEN Throw("Safari doesn't support '{digit}' in regular expressions")
    ELSE IF HasPipe(regExp)
    THEN Throw("Safari doesn't support '|' in regular expressions")
    ELSE IF HasNonAscii(regExp)
    THEN Throw("Safari doesn't support non-ASCII characters in regular expressions")
    ELSE IF HasNegativeLookahead(regExp)
    THEN Throw("Safari doesn't support negative lookahead in regular expressions")
    ELSE IF HasMetaChar(regExp)
    THEN Throw("Safari doesn't support metacharacters in regular expressions")
    ELSE Ok(regExp)

convertUrlFilterRule(rule) ==
    IF rule.csp THEN Throw("CSP rules are not supported")
    ELSE Then(validateRegExp(createUrlFilterString(rule)), LAMBDA urlFilter :
         Then(addResourceType(rule,
                  setWhiteList(rule, [trigger |-> ("url-filter" :> urlFilter),
                                      action |-> ("type" :> "block")])), LAMBDA result :
         Then(addDomainOptions(addMatchCase(addThirdParty(result.trigger, rule), rule), rule),
              LAMBDA trigger :
         Then(checkWhiteListExceptions(rule, [result EXCEPT !.trigger = trigger]),
              LAMBDA checked : validateUrlBlockingRule(checked)))))

\* convertAGRuleToCB without its last branch: whatever is not a CSS rule is
\* translated as a URL rule
convertAGRuleToCBAnyClass(rule) ==
    IF rule.kind = "Css" THEN convertCssFilterRule(rule)
    ELSE convertUrlFilterRule(rule)

convertAGRuleToCB(rule) ==
    IF rule.kind = "Css" THEN convertCssFilterRule(rule)
    ELSE IF rule.kind = "Url" THEN convertUrlFilterRule(rule)
    ELSE Throw("Rule is not supported")

\* the message convertAGRule pushes to errors
ConvertError(rule, cause) ==
    [type |-> "Error converting rule from", ruleText |-> rule.ruleText, cause |-> cause]

\* [item, errors]: item is null (isNull) exactly when the conversion threw
convertAGRule(rule, errors) ==
    With(convertAGRuleToCB(rule), LAMBDA r :
        IF r.threw
        THEN [isNull |-> TRUE, item |-> <<>>,
              errors |-> Append(errors, ConvertError(rule, r.cause))]
        ELSE [isNull |-> FALSE, item |-> r.value, errors |-> errors])

(***************************************************************************)
(* The rule builder (api.builder.createRule) and parseAGRule.              *)
(*                                                                         *)
(* A text is [str, chars, made]: the line as a value that is compared and  *)
(* copied, its characters, and the rule object the rule classes'           *)
(* constructors build from it (NoRule when the constructor throws).  The   *)
(* upstream normalizer's answer for a line, conv, is [kind, texts] with    *)
(* kind "null", "throws", "string" (texts holds the one text returned) or  *)
(* "array" (texts holds the texts returned).                               *)
(***************************************************************************)
NoRule == [BaseRule EXCEPT !.kind = "None"]

Contains(s, p) == IndexOf(s, p) >= 0

RECURSIVE TrimLeft(_)
TrimLeft(s) == IF s # <<>> /\ Head(s) = " " THEN TrimLeft(Tail(s)) ELSE s

Trim(s) == Reverse(TrimLeft(Reverse(TrimLeft(s))))

filterUnsupportedRules(chars) == ~Contains(chars, <<"#", "#", "^">>)

\* NoRule stands for null
CreateRuleFromText(text) ==
    LET ruleText == Trim(text.chars)
    IN  IF ruleText = <<>> THEN NoRule
        ELSE IF \/ StartWith(ruleText, <<"!">>)
                \/ Contains(ruleText, <<"a", "d", "g", "_", "s", "t", "a", "r", "t", "_",
                                        "s", "t", "y", "l", "e", "_", "i", "n", "j", "e", "c", "t">>)
                \/ Contains(ruleText, <<"$", "$">>)
                \/ Contains(ruleText, <<"$", "@", "$">>)
                \/ Contains(ruleText, <<"%", "%">>)
        THEN NoRule
        ELSE IF ~filterUnsupportedRules(ruleText) THEN NoRule
        ELSE text.made

\* lines 119-125
CreateFromString(text, converted, rule) ==
    IF converted.chars # text.chars
    THEN IF rule.kind = "None"
         THEN Throw("TypeError: Cannot set property 'ruleText' of null")
         ELSE Ok([rule EXCEPT !.ruleText = text.str, !.convertedRuleText = converted.str])
    ELSE Ok(rule)

createRule(text, conv) ==
    IF conv.kind \in {"null", "throws"} THEN Ok(NoRule)
    ELSE IF conv.kind = "array"
    THEN IF \A k \in 1..Len(conv.texts) : CreateRuleFromText(conv.texts[k]).kind = "None"
         THEN Ok(NoRule)
         ELSE Ok([BaseRule EXCEPT !.kind = "Composite", !.ruleText = text.str])
    ELSE CreateFromString(text, conv.texts[1], CreateRuleFromText(conv.texts[1]))

CreateError(str, cause) ==
    [type |-> "Error creating rule from", ruleText |-> str, cause |-> cause]

\* [rule, errors]: rule is NoRule when parseAGRule returns null
parseAGRule(el, errors) ==
    IF el.elem = "null"
    THEN [rule |-> NoRule, errors |-> errors]
    ELSE IF \/ el.text.chars = <<>>
            \/ IndexOf(el.text.chars, <<"!">>) = 0
            \/ IndexOf(el.text.chars, <<" ">>) = 0
            \/ IndexOf(el.text.chars, <<" ", "-", " ">>) > 0
    THEN [rule |-> NoRule, errors |-> errors]
    ELSE With(createRule(el.text, el.conv), LAMBDA built :
             IF built.threw
             THEN [rule |-> NoRule,
                   errors |-> Append(errors, CreateError(el.text.str, built.cause))]
             ELSE IF built.value.kind = "None"
             THEN [rule |-> NoRule,
                   errors |-> Append(errors, CreateError(el.text.str, "Cannot create rule from"))]
             ELSE [rule |-> built.value, errors |-> errors])

(***************************************************************************)
(* Post-processing.  An entry is [trigger, action, src]; src is            *)
(* bookkeeping of the model, the positions in the input of the rules the   *)
(* entry was made from, and no code reads it.                              *)
(***************************************************************************)
addWildcard(array) == [k \in 1..Len(array) |-> <<"*">> \o array[k]]

WildcardKey(trigger, key) ==
    IF Has(trigger, key) THEN SetKey(trigger, key, addWildcard(trigger[key])) ELSE trigger

\* applyDomainWildcards without its second if: unless-domain is left as it is
WildcardIfDomainOnly(rule) ==
    [rule EXCEPT !.trigger = WildcardKey(@, "if-domain")]

WildcardRule(rule) ==
    [rule EXCEPT !.trigger = WildcardKey(WildcardKey(@, "if-domain"), "unless-domain")]

applyDomainWildcards(entries) == [k \in 1..Len(entries) |-> WildcardRule(entries[k])]

NonEmptyKey(trigger, key) == Has(trigger, key) /\ Len(trigger[key]) > 0

\* pushExceptionDomain without the test of the permitted domains
pushExceptionDomainAlways(domain, rule) ==
    LET ruleRestrictedDomains == IF Has(rule.trigger, "unless-domain")
                                 THEN rule.trigger["unless-domain"]
                                 ELSE <<>>
    IN  [rule EXCEPT !.trigger =
            SetKey(@, "unless-domain", Append(ruleRestrictedDomains, domain))]

pushExceptionDomain(domain, rule) ==
    LET permittedDomains == IF Has(rule.trigger, "if-domain") THEN rule.trigger["if-domain"]
                            ELSE <<>>
        applicable == \E k \in 1..Len(permittedDomains) :
                          IndexOf(domain, permittedDomains[k]) >= 0
        ruleRestrictedDomains == IF Has(rule.trigger, "unless-domain")
                                 THEN rule.trigger["unless-domain"]
                                 ELSE <<>>
    IN  IF Len(permittedDomains) > 0 /\ ~applicable
        THEN rule
        ELSE [rule EXCEPT !.trigger =
                 SetKey(@, "unless-domain", Append(ruleRestrictedDomains, domain))]

RECURSIVE PushExceptionDomains(_, _)
PushExceptionDomains(domains, rule) ==
    IF domains = <<>> THEN rule
    ELSE PushExceptionDomains(Tail(domains), pushExceptionDomain(Head(domains), rule))

\* every exception applied to the rule, whatever its selector
RECURSIVE ApplyExceptionsToAnySelector(_, _)
ApplyExceptionsToAnySelector(rule, exceptions) ==
    IF exceptions = <<>> THEN rule
    ELSE LET exc == Head(exceptions)
             exceptionDomains == IF Has(exc.trigger, "if-domain") THEN exc.trigger["if-domain"]
                                 ELSE <<>>
         IN  ApplyExceptionsToAnySelector(PushExceptionDomains(exceptionDomains, rule),
                                          Tail(exceptions))

\* the exceptions of exceptionRulesMap[selector], in order, applied to one
\* rule of rulesMap[selector]
RECURSIVE ApplyExceptionsTo(_, _)
ApplyExceptionsTo(rule, exceptions) ==
    IF exceptions = <<>> THEN rule
    ELSE LET exc == Head(exceptions)
             exceptionDomains == IF Has(exc.trigger, "if-domain") THEN exc.trigger["if-domain"]
                                 ELSE <<>>
         IN  ApplyExceptionsTo(
                 IF exc.action["selector"] = rule.action["selector"]
                 THEN PushExceptionDomains(exceptionDomains, rule)
                 ELSE rule,
                 Tail(exceptions))

applyCssExceptions(blocking, exceptions) ==
    LET applied == [k \in 1..Len(blocking) |-> ApplyExceptionsTo(blocking[k], exceptions)]
    IN  SelectSeq(applied,
                  LAMBDA r : ~(NonEmptyKey(r.trigger, "if-domain")
                               /\ NonEmptyKey(r.trigger, "unless-domain")))

\* addWideRule: wide is [selectors, src], the selectors collected so far
WideRule(wide) ==
    [trigger |-> ("url-filter" :> URL_FILTER_CSS_RULES),
     action |-> ("type" :> "css-display-none"
                 @@ "selector" :> JoinCommaSpace(wide.selectors)),
     src |-> wide.src]

addWideRule(cssBlockingWide, wide) ==
    IF Len(wide.selectors) = 0 THEN cssBlockingWide
    ELSE Append(cssBlockingWide, WideRule(wide))

NoWide == [selectors |-> <<>>, src |-> <<>>]

\* lines 948-952: the three lists and wideSelectors before the loop
CompactStart ==
    [cssBlockingWide |-> <<>>, cssBlockingDomainSensitive |-> <<>>,
     cssBlockingGenericDomainSensitive |-> <<>>, wide |-> NoWide]

\* lines 975-986: the body of the loop, for one rule of cssBlocking
PushWide(acc, wide1) ==
    IF Len(wide1.selectors) >= MAX_SELECTORS_PER_WIDE_RULE
    THEN [acc EXCEPT !.cssBlockingWide = addWideRule(@, wide1), !.wide = NoWide]
    ELSE [acc EXCEPT !.wide = wide1]

\* the body of the loop without its else-if branch
CompactRuleTwoWays(acc, rule) ==
    IF Has(rule.trigger, "if-domain")
    THEN [acc EXCEPT !.cssBlockingDomainSensitive = Append(@, rule)]
    ELSE PushWide(acc, [selectors |-> Append(acc.wide.selectors, rule.action["selector"]),
                        src |-> acc.wide.src \o rule.src])

CompactRule(acc, rule) ==
    IF Has(rule.trigger, "if-domain")
    THEN [acc EXCEPT !.cssBlockingDomainSensitive = Append(@, rule)]
    ELSE IF Has(rule.trigger, "unless-domain")
    THEN [acc EXCEPT !.cssBlockingGenericDomainSensitive = Append(@, rule)]
    ELSE PushWide(acc, [selectors |-> Append(acc.wide.selectors, rule.action["selector"]),
                        src |-> acc.wide.src \o rule.src])

\* lines 988-995: the last addWideRule and the object returned
CompactReturn(acc) ==
    [cssBlockingWide |-> addWideRule(acc.cssBlockingWide, acc.wide),
     cssBlockingDomainSensitive |-> acc.cssBlockingDomainSensitive,
     cssBlockingGenericDomainSensitive |-> acc.cssBlockingGenericDomainSensitive]

RECURSIVE CompactLoop(_, _, _)
CompactLoop(blocking, k, acc) ==
    IF k > Len(blocking) THEN acc
    ELSE CompactLoop(blocking, k + 1, CompactRule(acc, blocking[k]))

compactCssRules(blocking) == CompactReturn(CompactLoop(blocking, 1, CompactStart))

(***************************************************************************)
(* convertLines and createConversionResult                                 *)
(***************************************************************************)
EmptyContentBlocker ==
    [cssBlockingWide |-> <<>>, cssBlockingGenericDomainSensitive |-> <<>>,
     cssBlockingGenericHideExceptions |-> <<>>, cssBlockingDomainSensitive |-> <<>>,
     cssElemhide |-> <<>>, urlBlocking |-> <<>>, other |-> <<>>, important |-> <<>>,
     importantExceptions |-> <<>>, documentExceptions |-> <<>>, errors |-> <<>>]

\* lines 1052-1058: the rule of element j goes to badFilterExceptions or to
\* agRules; agPos keeps j for the bookkeeping of positions
CollectRule(acc, rule, j) ==
    IF rule.kind = "None" THEN acc
    ELSE IF rule.isBadFilter
    THEN [acc EXCEPT !.badFilterExceptions = Append(@, rule.badFilter)]
    ELSE [acc EXCEPT !.agRules = Append(@, rule), !.agPos = Append(@, j)]

\* the first loop of convertLines from element j on; acc is
\* [threw, agRules, agPos, badFilterExceptions, errors].  Reading .ruleText of
\* an undefined element throws a TypeError that nothing in convertLines catches
RECURSIVE CollectRules(_, _, _)
CollectRules(els, j, acc) ==
    IF j > Len(els) THEN acc
    ELSE IF els[j].elem = "undefined" THEN [acc EXCEPT !.threw = TRUE]
    ELSE IF els[j].elem = "rule"
    THEN CollectRules(els, j + 1, CollectRule(acc, els[j].rule, j))
    ELSE With(parseAGRule(els[j], acc.errors), LAMBDA parsed :
             CollectRules(els, j + 1,
                          CollectRule([acc EXCEPT !.errors = parsed.errors], parsed.rule, j)))

\* the if-chain of the second loop with the test of isImportant placed
\* before the tests of GENERICHIDE and ELEMHIDE
RouteItemImportantFirst(st, agRule, item) ==
    LET type == item.action["type"]
        push(bucket) == [st EXCEPT !.contentBlocker[bucket] = Append(@, item)]
    IN  IF type = "block"
        THEN IF agRule.isImportant THEN push("important") ELSE push("urlBlocking")
        ELSE IF type = "css-display-none"
        THEN [st EXCEPT !.cssBlocking = Append(@, item)]
        ELSE IF type = "ignore-previous-rules"
                /\ Has(item.action, "selector") /\ item.action["selector"] # <<>>
        THEN [st EXCEPT !.cssExceptions = Append(@, item)]
        ELSE IF agRule.isImportant THEN push("importantExceptions")
        ELSE IF type = "ignore-previous-rules" /\ isSingleOption(agRule, "GENERICHIDE")
        THEN push("cssBlockingGenericHideExceptions")
        ELSE IF type = "ignore-previous-rules" /\ isSingleOption(agRule, "ELEMHIDE")
        THEN push("cssElemhide")
        ELSE IF IsDocumentWhiteList(agRule) THEN push("documentExceptions")
        ELSE push("other")

\* the if-chain of the second loop without the branch of the #@# rules
RouteItemExceptionsKept(st, agRule, item) ==
    LET type == item.action["type"]
        push(bucket) == [st EXCEPT !.contentBlocker[bucket] = Append(@, item)]
    IN  IF type = "block"
        THEN IF agRule.isImportant THEN push("important") ELSE push("urlBlocking")
        ELSE IF type = "css-display-none"
        THEN [st EXCEPT !.cssBlocking = Append(@, item)]
        ELSE IF type = "ignore-previous-rules" /\ isSingleOption(agRule, "GENERICHIDE")
        THEN push("cssBlockingGenericHideExceptions")
        ELSE IF type = "ignore-previous-rules" /\ isSingleOption(agRule, "ELEMHIDE")
        THEN push("cssElemhide")
        ELSE IF agRule.isImportant THEN push("importantExceptions")
        ELSE IF IsDocumentWhiteList(agRule) THEN push("documentExceptions")
        ELSE push("other")

\* the if-chain of the second loop: where one converted item goes;
\* st is [contentBlocker, cssBlocking, cssExceptions]
RouteItem(st, agRule, item) ==
    LET type == item.action["type"]
        push(bucket) == [st EXCEPT !.contentBlocker[bucket] = Append(@, item)]
    IN  IF type = "block"
        THEN IF agRule.isImportant THEN push("important") ELSE push("urlBlocking")
        ELSE IF type = "css-display-none"
        THEN [st EXCEPT !.cssBlocking = Append(@, item)]
        ELSE IF type = "ignore-previous-rules"
                /\ Has(item.action, "selector") /\ item.action["selector"] # <<>>
        THEN [st EXCEPT !.cssExceptions = Append(@, item)]
        ELSE IF type = "ignore-previous-rules" /\ isSingleOption(agRule, "GENERICHIDE")
        THEN push("cssBlockingGenericHideExceptions")
        ELSE IF type = "ignore-previous-rules" /\ isSingleOption(agRule, "ELEMHIDE")
        THEN push("cssElemhide")
        ELSE IF agRule.isImportant THEN push("importantExceptions")
        ELSE IF IsDocumentWhiteList(agRule) THEN push("documentExceptions")
        ELSE push("other")

\* the second loop without the $badfilter test of line 1065
TranslateRuleUnfiltered(st, bad, agRule, pos) ==
    With(convertAGRule(agRule, st.contentBlocker.errors), LAMBDA conv :
        IF conv.isNull
        THEN [st EXCEPT !.contentBlocker.errors = conv.errors]
        ELSE RouteItem(st, agRule, conv.item @@ [src |-> <<pos>>]))

\* one iteration of the second loop, for agRule, which stood at pos in rules
TranslateRule(st, bad, agRule, pos) ==
    IF agRule.ruleText \in SeqToSet(bad) THEN st
    ELSE With(convertAGRule(agRule, st.contentBlocker.errors), LAMBDA conv :
             IF conv.isNull
             THEN [st EXCEPT !.contentBlocker.errors = conv.errors]
             ELSE RouteItem(st, agRule, conv.item @@ [src |-> <<pos>>]))

\* convertLines after its second loop, without the test of optimize
FinishLinesKeepWide(st, optimizeFlag) ==
    With(compactCssRules(applyCssExceptions(st.cssBlocking, st.cssExceptions)),
         LAMBDA cssCompact :
            [st.contentBlocker EXCEPT
                !.cssBlockingWide = cssCompact.cssBlockingWide,
                !.cssBlockingGenericDomainSensitive =
                    cssCompact.cssBlockingGenericDomainSensitive,
                !.cssBlockingDomainSensitive = cssCompact.cssBlockingDomainSensitive])

\* convertLines after its second loop
FinishLines(st, optimizeFlag) ==
    With(compactCssRules(applyCssExceptions(st.cssBlocking, st.cssExceptions)),
         LAMBDA cssCompact :
            [st.contentBlocker EXCEPT
                !.cssBlockingWide = IF ~optimizeFlag THEN cssCompact.cssBlockingWide ELSE @,
                !.cssBlockingGenericDomainSensitive =
                    cssCompact.cssBlockingGenericDomainSensitive,
                !.cssBlockingDomainSensitive = cssCompact.cssBlockingDomainSensitive])

\* the second loop from agRules[k] on
RECURSIVE TranslateRules(_, _, _, _, _)
TranslateRules(st, bad, ags, pos, k) ==
    IF k > Len(ags) THEN st
    ELSE TranslateRules(TranslateRule(st, bad, ags[k], pos[k]), bad, ags, pos, k + 1)

\* convertLines as a whole: the contentBlocker it returns, or its exception
ConvertLinesOf(collected, optimizeFlag) ==
    IF collected.threw THEN Throw("TypeError: Cannot read property 'ruleText' of undefined")
    ELSE Ok(FinishLines(
                TranslateRules([contentBlocker |->
                                   [EmptyContentBlocker EXCEPT !.errors = collected.errors],
                                cssBlocking |-> <<>>, cssExceptions |-> <<>>],
                               collected.badFilterExceptions, collected.agRules,
                               collected.agPos, 1),
                optimizeFlag))

convertLines(els, optimizeFlag) ==
    ConvertLinesOf(CollectRules(els, 1, [threw |-> FALSE, agRules |-> <<>>, agPos |-> <<>>,
                                         badFilterExceptions |-> <<>>, errors |-> <<>>]),
                   optimizeFlag)

BucketOrder ==
    <<"cssBlockingWide", "cssBlockingGenericDomainSensitive",
      "cssBlockingGenericHideExceptions", "cssBlockingDomainSensitive", "cssElemhide",
      "urlBlocking", "other", "important", "importantExceptions", "documentExceptions">>

\* the concatenation with important rules moved before urlBlocking
ConcatBucketsImportantFirst(cb) ==
    cb.cssBlockingWide \o cb.cssBlockingGenericDomainSensitive
    \o cb.cssBlockingGenericHideExceptions \o cb.cssBlockingDomainSensitive
    \o cb.cssElemhide \o cb.important \o cb.urlBlocking \o cb.other
    \o cb.importantExceptions \o cb.documentExceptions

ConcatBuckets(cb) ==
    cb.cssBlockingWide \o cb.cssBlockingGenericDomainSensitive
    \o cb.cssBlockingGenericHideExceptions \o cb.cssBlockingDomainSensitive
    \o cb.cssElemhide \o cb.urlBlocking \o cb.other \o cb.important
    \o cb.importantExceptions \o cb.documentExceptions

LimitError(n) == [type |-> "limit is achieved. Next rules will be ignored.",
                  ruleText |-> "", cause |-> ToString(n)]

\* number of entries in the buckets that precede bucket number b
RECURSIVE BucketOffset(_, _)
BucketOffset(cb, b) ==
    IF b = 1 THEN 0 ELSE BucketOffset(cb, b - 1) + Len(cb[BucketOrder[b - 1]])

\* applyDomainWildcards writes into the domain arrays of the entries of
\* converted, which are the entry objects the buckets hold
WildcardInPlace(cb, count) ==
    [name \in DOMAIN cb |->
        IF name = "errors" THEN cb[name]
        ELSE LET b == CHOOSE k \in 1..Len(BucketOrder) : BucketOrder[k] = name
             IN  [k \in 1..Len(cb[name]) |->
                    IF BucketOffset(cb, b) + k <= count THEN WildcardRule(cb[name][k])
                    ELSE cb[name][k]]]

\* lines 1158-1177 without the errors.push of line 1162
ResultOfSilent(cb, lim, converted, overLimit) ==
    With(IF overLimit THEN SubSeq(converted, 1, lim.n) ELSE converted, LAMBDA cut :
        [contentBlocker |-> WildcardInPlace(cb, Len(cut)),
         returned |-> [totalConvertedCount |-> Len(converted),
                       convertedCount |-> Len(cut),
                       errorsCount |-> Len(cb.errors),
                       overLimit |-> overLimit,
                       converted |-> applyDomainWildcards(cut)]])

\* lines 1158-1177 with errorsCount read before the push of line 1162
ResultOfCountedFirst(cb, lim, converted, overLimit) ==
    With(IF overLimit THEN SubSeq(converted, 1, lim.n) ELSE converted, LAMBDA cut :
    With(IF overLimit THEN Append(cb.errors, LimitError(lim.n)) ELSE cb.errors, LAMBDA errors :
        [contentBlocker |-> [WildcardInPlace(cb, Len(cut)) EXCEPT !.errors = errors],
         returned |-> [totalConvertedCount |-> Len(converted),
                       convertedCount |-> Len(cut),
                       errorsCount |-> Len(cb.errors),
                       overLimit |-> overLimit,
                       converted |-> applyDomainWildcards(cut)]]))

\* lines 1158-1177, converted being the concatenation of the buckets
ResultOf(cb, lim, converted, overLimit) ==
    With(IF overLimit THEN SubSeq(converted, 1, lim.n) ELSE converted, LAMBDA cut :
    With(IF overLimit THEN Append(cb.errors, LimitError(lim.n)) ELSE cb.errors, LAMBDA errors :
        [contentBlocker |-> [WildcardInPlace(cb, Len(cut)) EXCEPT !.errors = errors],
         returned |-> [totalConvertedCount |-> Len(converted),
                       convertedCount |-> Len(cut),
                       errorsCount |-> Len(errors),
                       overLimit |-> overLimit,
                       converted |-> applyDomainWildcards(cut)]]))

\* createConversionResult with >= for the > of line 1160
createConversionResultInclusive(cb, lim) ==
    IF lim.kind = "symbol"
    THEN Throw("TypeError: Cannot convert a Symbol value to a number")
    ELSE With(ConcatBuckets(cb), LAMBDA converted :
             Ok(ResultOf(cb, lim, converted,
                         lim.kind = "number" /\ lim.n # 0 /\ lim.n > 0
                             /\ Len(converted) >= lim.n)))

\* lim is [kind, n]: kind "absent" (undefined), "number" (the number n) or
\* "symbol" (a value whose comparison with a number throws a TypeError)
createConversionResult(cb, lim) ==
    IF lim.kind = "symbol"
    THEN Throw("TypeError: Cannot convert a Symbol value to a number")
    ELSE With(ConcatBuckets(cb), LAMBDA converted :
             Ok(ResultOf(cb, lim, converted,
                         lim.kind = "number" /\ lim.n # 0 /\ lim.n > 0
                             /\ Len(converted) > lim.n)))

(***************************************************************************)
(* The inputs of the model                                                 *)
(***************************************************************************)
MaxRules == 2

AbCo == <<"a", "b", ".", "c", "o">>

CdCo == <<"c", "d", ".", "c", "o">>

CdCoUpper == <<"C", "D", ".", "c", "o">>

IdnCo == <<"é", "b", ".", "c", "o">>

SubAbCo == <<"s", ".", "a", "b", ".", "c", "o">>

SelAd == <<".", "a", "d">>

SelList == <<".", "a", ",", " ", ".", "b">>

UrlAbCo == <<"|", "|">> \o AbCo \o <<"^">>

\* ||ab.co^
RBlock == [BaseRule EXCEPT !.ruleText = "||ab.co^", !.urlRuleText = UrlAbCo]

\* ||ab.co^$important,domain=CD.co
RImportant ==
    [BaseRule EXCEPT !.ruleText = "||ab.co^$important,domain=CD.co", !.urlRuleText = UrlAbCo,
                     !.isImportant = TRUE, !.permittedDomains = <<CdCoUpper>>]

\* @@||ab.co^$document
RDocument ==
    [BaseRule EXCEPT !.ruleText = "@@||ab.co^$document", !.urlRuleText = UrlAbCo,
                     !.whiteListRule = TRUE, !.enabledOptions = DOCUMENT_WHITELIST]

\* @@||ab.co^$document,domain=~cd.co
RDocumentRestricted ==
    [RDocument EXCEPT !.ruleText = "@@||ab.co^$document,domain=~cd.co",
                      !.restrictedDomains = <<CdCo>>]

\* @@||ab.co^$generichide
RGenericHide ==
    [BaseRule EXCEPT !.ruleText = "@@||ab.co^$generichide", !.urlRuleText = UrlAbCo,
                     !.whiteListRule = TRUE, !.enabledOptions = {"GENERICHIDE"}]

\* @@||ab.co/x$image
RException ==
    [BaseRule EXCEPT !.ruleText = "@@||ab.co/x$image",
                     !.urlRuleText = <<"|", "|">> \o AbCo \o <<"/", "x">>,
                     !.whiteListRule = TRUE, !.permittedContentType = {"IMAGE"}]

\* ||ab.co^$badfilter
RBadFilter ==
    [RBlock EXCEPT !.ruleText = "||ab.co^$badfilter", !.isBadFilter = TRUE,
                   !.badFilter = "||ab.co^"]

\* ||ab.co^$object
RObject ==
    [BaseRule EXCEPT !.ruleText = "||ab.co^$object", !.urlRuleText = UrlAbCo,
                     !.permittedContentType = {"OBJECT"}]

CssRule(text, selector) ==
    [BaseRule EXCEPT !.kind = "Css", !.ruleText = text, !.cssSelector = selector]

\* ##.ad
CWide == CssRule("##.ad", SelAd)

\* ##.a, .b
CWideList == CssRule("##.a, .b", SelList)

\* ab.co##.ad
CDomain == [CssRule("ab.co##.ad", SelAd) EXCEPT !.permittedDomains = <<AbCo>>]

\* ~éb.co##.ad
CGeneric == [CssRule("~éb.co##.ad", SelAd) EXCEPT !.restrictedDomains = <<IdnCo>>]

\* s.ab.co#@#.ad
CException ==
    [CssRule("s.ab.co#@#.ad", SelAd) EXCEPT !.whiteListRule = TRUE,
                                             !.permittedDomains = <<SubAbCo>>]

\* #@#.ad
CExceptionAll == [CssRule("#@#.ad", SelAd) EXCEPT !.whiteListRule = TRUE]

\* #%#window.x = 1
RScript == [BaseRule EXCEPT !.kind = "Script", !.ruleText = "#%#window.x = 1"]

\* #%#//scriptlet("x")
RScriptlet == [BaseRule EXCEPT !.kind = "Scriptlet", !.ruleText = "#%#//scriptlet(x)"]

\* ||ab.co^$popup
RPopup ==
    [BaseRule EXCEPT !.ruleText = "||ab.co^$popup", !.urlRuleText = UrlAbCo,
                     !.blockPopups = TRUE, !.permittedContentType = {"SUBDOCUMENT"}]

Text(str, chars, made) == [str |-> str, chars |-> chars, made |-> made]

Conv(kind, texts) == [kind |-> kind, texts |-> texts]

\* an element of rules: a rule object, a line with the normalizer's answer
\* for it, null or undefined
RuleElement(rule) == [elem |-> "rule", rule |-> rule]

TextElement(text, conv) == [elem |-> "text", text |-> text, conv |-> conv]

\* a line the normalizer leaves as it is
PlainLine(text) == TextElement(text, Conv("string", <<text>>))

TBlock == Text("||ab.co^", UrlAbCo, RBlock)

TComment == Text("! ad", <<"!", " ", "a", "d">>, NoRule)

THtmlFilter == Text("##^ad", <<"#", "#", "^", "a", "d">>, NoRule)

\* ab.co##^ad, which the normalizer rewrites to the content rule ab.co$$ad
TUboHtml == Text("ab.co##^ad", AbCo \o <<"#", "#", "^", "a", "d">>, NoRule)

TContent == Text("ab.co$$ad", AbCo \o <<"$", "$", "a", "d">>, NoRule)

TPopup == Text("||ab.co^$popup", UrlAbCo \o <<"$", "p", "o", "p", "u", "p">>, RPopup)

\* ||ab.co^$all, which the normalizer rewrites to several rules
TAll == Text("||ab.co^$all", UrlAbCo \o <<"$", "a", "l", "l">>, NoRule)

NullElement == [elem |-> "null"]

UndefinedElement == [elem |-> "undefined"]

Elements ==
    {RuleElement(r) : r \in {RBlock, RImportant, RDocument, RDocumentRestricted, RGenericHide,
                             RException, RBadFilter, RObject, CWide, CDomain, CGeneric,
                             CException, CExceptionAll, RScript, RScriptlet}}
    \cup {PlainLine(TBlock), PlainLine(TComment), PlainLine(THtmlFilter),
          TextElement(TUboHtml, Conv("string", <<TContent>>)),
          TextElement(TAll, Conv("array", <<TBlock, TPopup>>)),
          NullElement, UndefinedElement}

RuleLists == UNION {[1..n -> Elements] : n \in 0..MaxRules}

Limits ==
    {[kind |-> "absent", n |-> 0], [kind |-> "symbol", n |-> 0]}
    \cup {[kind |-> "number", n |-> k] : k \in {-1, 0, 1}}

\* the rule engine's own configuration (SimpleRegex.regexConfiguration)
DefaultRegexConfiguration ==
    [regexStartUrl |-> <<"^", "(", "h", "t", "t", "p", "|", "h", "t", "t", "p", "s", "|",
                        "w", "s", "|", "w", "s", "s", ")", ":", "/", "/",
                        "(", "[", "a", "-", "z", "0", "-", "9", "-", "_", ".", "]", "+",
                        "\\", ".", ")", "?">>,
     regexSeparator |-> <<"(", "[", "^", " ", "a", "-", "z", "A", "-", "Z", "0", "-", "9",
                         ".", "%", "_", "-", "]", "|", "$", ")">>]

(***************************************************************************)
(* convertArray, one call at a time                                        *)
(***************************************************************************)
NoReturn ==
    [totalConvertedCount |-> 0, convertedCount |-> 0, errorsCount |-> 0,
     overLimit |-> FALSE, converted |-> <<>>]

NoCall ==
    /\ rules = <<>>
    /\ rulesNull = FALSE
    /\ limit = [kind |-> "absent", n |-> 0]
    /\ optimize = FALSE
    /\ prevRegexStartUrl = <<>>
    /\ prevRegexSeparator = <<>>
    /\ agRules = <<>>
    /\ agPos = <<>>
    /\ badFilterExceptions = <<>>
    /\ iAg = 0
    /\ contentBlocker = EmptyContentBlocker
    /\ cssBlocking = <<>>
    /\ cssExceptions = <<>>
    /\ outcome = "none"
    /\ returned = NoReturn

NoFunction == arg = <<>> /\ out = <<>>

Init ==
    /\ pc = "idle"
    /\ regexConfiguration = DefaultRegexConfiguration
    /\ NoCall
    /\ NoFunction

locals == <<agRules, agPos, badFilterExceptions, iAg, contentBlocker, cssBlocking, cssExceptions>>

args == <<rules, rulesNull, limit, optimize>>

saved == <<prevRegexStartUrl, prevRegexSeparator>>

\* lines 1187-1197: the call starts, saves the configuration and replaces it
ConvertArray ==
    /\ pc = "idle"
    /\ \E rs \in RuleLists, isNull \in BOOLEAN, lim \in Limits, opt \in BOOLEAN :
          /\ isNull => (rs = <<>> /\ lim.kind = "absent" /\ ~opt)
          /\ rules' = rs
          /\ rulesNull' = isNull
          /\ limit' = lim
          /\ optimize' = opt
    /\ prevRegexStartUrl' = regexConfiguration.regexStartUrl
    /\ prevRegexSeparator' = regexConfiguration.regexSeparator
    /\ regexConfiguration' = [regexStartUrl |-> URL_FILTER_REGEXP_START_URL,
                              regexSeparator |-> URL_FILTER_REGEXP_SEPARATOR]
    /\ pc' = "try"
    /\ UNCHANGED <<locals, outcome, returned, arg, out>>

\* lines 1199-1207: rules is null or empty, return null
ReturnNull ==
    /\ pc = "try"
    /\ rulesNull \/ Len(rules) = 0
    /\ outcome' = "null"
    /\ pc' = "finally"
    /\ UNCHANGED <<args, regexConfiguration, saved, locals, returned, arg, out>>

Collected ==
    CollectRules(rules, 1, [threw |-> FALSE, agRules |-> <<>>, agPos |-> <<>>,
                            badFilterExceptions |-> <<>>, errors |-> <<>>])

\* lines 1005-1059: convertLines up to the end of its first loop, which
\* either throws (the exception leaves convertLines and the try block) or
\* leaves agRules, badFilterExceptions and the parse errors
ConvertLinesCollectDo(collected) ==
    IF collected.threw
    THEN /\ outcome' = "thrown"
         /\ pc' = "finally"
         /\ UNCHANGED locals
    ELSE /\ agRules' = collected.agRules
         /\ agPos' = collected.agPos
         /\ badFilterExceptions' = collected.badFilterExceptions
         /\ contentBlocker' = [EmptyContentBlocker EXCEPT !.errors = collected.errors]
         /\ pc' = "translate"
         /\ UNCHANGED <<iAg, cssBlocking, cssExceptions, outcome>>

ConvertLinesCollect ==
    /\ pc = "try"
    /\ ~rulesNull /\ Len(rules) > 0
    /\ ConvertLinesCollectDo(Collected)
    /\ UNCHANGED <<args, regexConfiguration, saved, returned, arg, out>>

\* lines 1061-1109: one iteration of the second loop
ConvertLinesTranslateDo(st) ==
    /\ contentBlocker' = st.contentBlocker
    /\ cssBlocking' = st.cssBlocking
    /\ cssExceptions' = st.cssExceptions

ConvertLinesTranslate ==
    /\ pc = "translate"
    /\ iAg < Len(agRules)
    /\ ConvertLinesTranslateDo(
           TranslateRule([contentBlocker |-> contentBlocker, cssBlocking |-> cssBlocking,
                          cssExceptions |-> cssExceptions],
                         badFilterExceptions, agRules[iAg + 1], agPos[iAg + 1]))
    /\ iAg' = iAg + 1
    /\ UNCHANGED <<pc, args, regexConfiguration, saved, agRules, agPos, badFilterExceptions,
                   outcome, returned, arg, out>>

\* lines 1111-1134: the CSS passes, and convertLines returns
ConvertLinesFinish ==
    /\ pc = "translate"
    /\ iAg = Len(agRules)
    /\ contentBlocker' = FinishLines([contentBlocker |-> contentBlocker,
                                      cssBlocking |-> cssBlocking,
                                      cssExceptions |-> cssExceptions], optimize)
    /\ cssBlocking' = applyCssExceptions(cssBlocking, cssExceptions)
    /\ pc' = "result"
    /\ UNCHANGED <<args, regexConfiguration, saved, agRules, agPos, badFilterExceptions, iAg,
                   cssExceptions, outcome, returned, arg, out>>

\* lines 1144-1178 and the return of line 1210
CreateConversionResultDo(r) ==
    IF r.threw
    THEN /\ outcome' = "thrown"
         /\ UNCHANGED <<contentBlocker, returned>>
    ELSE /\ outcome' = "result"
         /\ contentBlocker' = r.value.contentBlocker
         /\ returned' = r.value.returned

CreateConversionResult ==
    /\ pc = "result"
    /\ CreateConversionResultDo(createConversionResult(contentBlocker, limit))
    /\ pc' = "finally"
    /\ UNCHANGED <<args, regexConfiguration, saved, agRules, agPos, badFilterExceptions, iAg,
                   cssBlocking, cssExceptions, arg, out>>

\* the restore placed after the return instead of in a finally block
RestoreAfterReturn ==
    IF outcome = "thrown" THEN regexConfiguration
    ELSE [regexStartUrl |-> prevRegexStartUrl, regexSeparator |-> prevRegexSeparator]

\* lines 1211-1215: the finally block, after which the call has ended
RestoreConfiguration ==
    [regexStartUrl |-> prevRegexStartUrl, regexSeparator |-> prevRegexSeparator]

ConvertArrayFinally ==
    /\ pc = "finally"
    /\ regexConfiguration' = RestoreConfiguration
    /\ pc' = "done"
    /\ UNCHANGED <<args, saved, locals, outcome, returned, arg, out>>

\* the caller has the outcome; the call's objects are gone
Forget ==
    /\ pc = "done"
    /\ pc' = "idle"
    /\ rules' = <<>>
    /\ rulesNull' = FALSE
    /\ limit' = [kind |-> "absent", n |-> 0]
    /\ optimize' = FALSE
    /\ prevRegexStartUrl' = <<>>
    /\ prevRegexSeparator' = <<>>
    /\ agRules' = <<>>
    /\ agPos' = <<>>
    /\ badFilterExceptions' = <<>>
    /\ iAg' = 0
    /\ contentBlocker' = EmptyContentBlocker
    /\ cssBlocking' = <<>>
    /\ cssExceptions' = <<>>
    /\ outcome' = "none"
    /\ returned' = NoReturn
    /\ UNCHANGED <<regexConfiguration, arg, out>>

Next ==
    \/ ConvertArray
    \/ ReturnNull
    \/ ConvertLinesCollect
    \/ ConvertLinesTranslate
    \/ ConvertLinesFinish
    \/ CreateConversionResult
    \/ ConvertArrayFinally
    \/ Forget

Spec == Init /\ [][Next]_vars


(***************************************************************************)
(* convertUrlFilterRule on its own: one URL rule in arg, translated into   *)
(* out while the converter's regex configuration is in place, as it is     *)
(* for every translation convertLines asks for.                            *)
(***************************************************************************)
UrlRules ==
    {[BaseRule EXCEPT !.ruleText = "||ab.co^$...", !.urlRuleText = UrlAbCo,
                      !.csp = c, !.replace = r, !.whiteListRule = w,
                      !.permittedContentType = p, !.restrictedContentType = q,
                      !.enabledOptions = o,
                      !.checkThirdParty = t # "any", !.thirdParty = (t = "third"),
                      !.permittedDomains = d] :
        c \in BOOLEAN, r \in BOOLEAN, w \in BOOLEAN,
        p \in {ContentTypeALL, {"OBJECT"}, {"OBJECT_SUBREQUEST"}, {"WEBRTC"}, {"IMAGE"},
               {"IMAGE", "OBJECT"}, {"SUBDOCUMENT"}},
        q \in {{}, {"SCRIPT"}},
        o \in {{}, {"JSINJECT"}, {"JSINJECT", "URLBLOCK"}},
        t \in {"any", "first", "third"},
        d \in {<<>>, <<CdCo>>}}

\* whitelist rules @@<url>$<option>[,domain=cd.co|~cd.co][,image], for the
\* urls ||ab.co^, ||ab.co/, ||ab.co, ||ab.co/x and ad
WhiteListRules ==
    {[BaseRule EXCEPT !.ruleText = "@@...", !.urlRuleText = u, !.whiteListRule = TRUE,
                      !.enabledOptions = o, !.permittedContentType = p,
                      !.permittedDomains = d, !.restrictedDomains = e] :
        u \in {UrlAbCo, <<"|", "|">> \o AbCo \o <<"/">>, <<"|", "|">> \o AbCo,
               <<"|", "|">> \o AbCo \o <<"/", "x">>, <<"a", "d">>},
        o \in {DOCUMENT_WHITELIST, {"URLBLOCK"}, {"GENERICBLOCK"}, {"GENERICHIDE"},
               {"ELEMHIDE"}, {}},
        p \in {ContentTypeALL, {"IMAGE"}},
        d \in {<<>>, <<CdCo>>},
        e \in {<<>>, <<CdCo>>}}

InitUrl ==
    /\ pc = "url"
    /\ regexConfiguration = [regexStartUrl |-> URL_FILTER_REGEXP_START_URL,
                             regexSeparator |-> URL_FILTER_REGEXP_SEPARATOR]
    /\ NoCall
    /\ arg \in UrlRules \cup WhiteListRules
    /\ out = <<>>

ConvertUrlFilterRule ==
    /\ pc = "url"
    /\ out' = convertUrlFilterRule(arg)
    /\ pc' = "converted"
    /\ UNCHANGED <<args, regexConfiguration, saved, locals, outcome, returned, arg>>

NextUrl == ConvertUrlFilterRule

SpecUrl == InitUrl /\ [][NextUrl]_vars

(***************************************************************************)
(* createUrlFilterString on its own: the URL rule in arg gives the         *)
(* url-filter in out, under the converter's regex configuration.           *)
(***************************************************************************)
\* URL rules with the url texts ||*, empty, *, |*, ||ab.co^, |ab.co, ab.co,
\* ws, ^ad and ad, that are regex rules or not, with a compiled urlRegExp
\* of source ad, ^ad or ws, or with none
FilterRules ==
    {[BaseRule EXCEPT !.ruleText = "...", !.urlRuleText = u, !.permittedContentType = p,
                      !.isRegexRule = x, !.urlRegExp = e] :
        u \in ANY_URL_TEMPLATES
              \cup {UrlAbCo, <<"|">> \o AbCo, AbCo, <<"w", "s">>, <<"^", "a", "d">>, <<"a", "d">>},
        p \in {ContentTypeALL, {"WEBSOCKET"}, {"IMAGE"}, {"WEBSOCKET", "IMAGE"}},
        x \in BOOLEAN,
        e \in {<<>>, <<"a", "d">>, <<"^", "a", "d">>, <<"w", "s">>}}

InitFilter ==
    /\ pc = "filter"
    /\ regexConfiguration = [regexStartUrl |-> URL_FILTER_REGEXP_START_URL,
                             regexSeparator |-> URL_FILTER_REGEXP_SEPARATOR]
    /\ NoCall
    /\ arg \in FilterRules
    /\ out = <<>>

CreateUrlFilterString ==
    /\ pc = "filter"
    /\ out' = createUrlFilterString(arg)
    /\ pc' = "filtered"
    /\ UNCHANGED <<args, regexConfiguration, saved, locals, outcome, returned, arg>>

NextFilter == CreateUrlFilterString

SpecFilter == InitFilter /\ [][NextFilter]_vars

(***************************************************************************)
(* addResourceType on its own: the URL rule in arg and the entry           *)
(* convertUrlFilterRule has made so far give, in out, the entry with its   *)
(* resource-type, or the exception.                                        *)
(***************************************************************************)
\* URL rules with every permitted content-type mask, three restricted
\* masks, with and without $popup
TypeRules ==
    {[BaseRule EXCEPT !.ruleText = "||ab.co^$...", !.urlRuleText = UrlAbCo,
                      !.permittedContentType = p, !.restrictedContentType = q,
                      !.blockPopups = b] :
        p \in SUBSET ContentTypeBits,
        q \in {{}, {"SCRIPT"}, {"XMLHTTPREQUEST", "OTHER"}},
        b \in BOOLEAN}

InitType ==
    /\ pc = "type"
    /\ regexConfiguration = [regexStartUrl |-> URL_FILTER_REGEXP_START_URL,
                             regexSeparator |-> URL_FILTER_REGEXP_SEPARATOR]
    /\ NoCall
    /\ arg \in TypeRules
    /\ out = <<>>

AddResourceType ==
    /\ pc = "type"
    /\ out' = addResourceType(arg, [trigger |-> ("url-filter" :> URL_FILTER_ANY_URL),
                                    action |-> ("type" :> "block")])
    /\ pc' = "typed"
    /\ UNCHANGED <<args, regexConfiguration, saved, locals, outcome, returned, arg>>

NextType == AddResourceType

SpecType == InitType /\ [][NextType]_vars

(***************************************************************************)
(* One iteration of the second loop of convertLines on its own: the rule   *)
(* in arg is translated and its entry routed, starting from empty buckets; *)
(* out is [contentBlocker, cssBlocking, cssExceptions] after the           *)
(* iteration.                                                              *)
(***************************************************************************)
RouteRules ==
    {[r EXCEPT !.isImportant = i] :
        r \in WhiteListRules \cup {RBlock, RObject, RException, RPopup}, i \in BOOLEAN}
    \cup {CWide, CDomain, CGeneric, CException, RScript}

InitRoute ==
    /\ pc = "route"
    /\ regexConfiguration = [regexStartUrl |-> URL_FILTER_REGEXP_START_URL,
                             regexSeparator |-> URL_FILTER_REGEXP_SEPARATOR]
    /\ NoCall
    /\ arg \in RouteRules
    /\ out = <<>>

ConvertLinesIteration ==
    /\ pc = "route"
    /\ out' = TranslateRule([contentBlocker |-> EmptyContentBlocker, cssBlocking |-> <<>>,
                             cssExceptions |-> <<>>], <<>>, arg, 1)
    /\ pc' = "routed"
    /\ UNCHANGED <<args, regexConfiguration, saved, locals, outcome, returned, arg>>

NextRoute == ConvertLinesIteration

SpecRoute == InitRoute /\ [][NextRoute]_vars

(***************************************************************************)
(* The CSS passes of convertLines on their own (lines 1112-1113): arg is   *)
(* [cssBlocking, cssExceptions] as the second loop leaves them, out is     *)
(* [cssBlocking, cssCompact] after applyCssExceptions and compactCssRules. *)
(***************************************************************************)
MaxCss == 2

\* cd.co##.ad
CDomainCd == [CssRule("cd.co##.ad", SelAd) EXCEPT !.permittedDomains = <<CdCo>>]

\* ab.co#@#.ad
CExceptionAb ==
    [CssRule("ab.co#@#.ad", SelAd) EXCEPT !.whiteListRule = TRUE, !.permittedDomains = <<AbCo>>]

\* s.ab.co,cd.co#@#.ad
CExceptionTwo ==
    [CssRule("s.ab.co,cd.co#@#.ad", SelAd) EXCEPT !.whiteListRule = TRUE,
                                                   !.permittedDomains = <<SubAbCo, CdCo>>]

\* ~cd.co#@#.ad
CExceptionNotCd ==
    [CssRule("~cd.co#@#.ad", SelAd) EXCEPT !.whiteListRule = TRUE,
                                            !.restrictedDomains = <<CdCo>>]

\* ab.co#@#.a, .b
CExceptionList ==
    [CssRule("ab.co#@#.a, .b", SelList) EXCEPT !.whiteListRule = TRUE,
                                                !.permittedDomains = <<AbCo>>]

HideRules == {CWide, CWideList, CDomain, CDomainCd, CGeneric}

ExceptionRules ==
    {CException, CExceptionAb, CExceptionTwo, CExceptionAll, CExceptionNotCd, CExceptionList}

\* the entries the second loop makes of the CSS rules rs
CssEntries(rs) == [k \in DOMAIN rs |-> convertCssFilterRule(rs[k]).value @@ [src |-> <<k>>]]

CssLists(rs) == UNION {[1..n -> rs] : n \in 0..MaxCss}

InitCss ==
    /\ pc = "css"
    /\ regexConfiguration = [regexStartUrl |-> URL_FILTER_REGEXP_START_URL,
                             regexSeparator |-> URL_FILTER_REGEXP_SEPARATOR]
    /\ NoCall
    /\ \E hides \in CssLists(HideRules), exceptions \in CssLists(ExceptionRules) :
          arg = [cssBlocking |-> CssEntries(hides), cssExceptions |-> CssEntries(exceptions)]
    /\ out = <<>>

CssPassesDo(applied) ==
    out' = [cssBlocking |-> applied, cssCompact |-> compactCssRules(applied)]

CssPasses ==
    /\ pc = "css"
    /\ CssPassesDo(applyCssExceptions(arg.cssBlocking, arg.cssExceptions))
    /\ pc' = "applied"
    /\ UNCHANGED <<args, regexConfiguration, saved, locals, outcome, returned, arg>>

NextCss == CssPasses

SpecCss == InitCss /\ [][NextCss]_vars

(***************************************************************************)
(* compactCssRules on its own, one iteration of its loop at a time.  arg   *)
(* is the part of cssBlocking the loop has read, with the kind of list it  *)
(* is; out holds the three lists and wideSelectors, and after the return   *)
(* the object returned.  The list ends where the loop stops.               *)
(***************************************************************************)
MaxHide == 501

DigitChars == <<"0", "1", "2", "3", "4", "5", "6", "7", "8", "9">>

RECURSIVE DigitsOf(_)
DigitsOf(n) ==
    IF n < 10 THEN <<DigitChars[n + 1]>>
    ELSE Append(DigitsOf(n \div 10), DigitChars[(n % 10) + 1])

\* .s<i>
SelectorOf(i) == <<".", "s">> \o DigitsOf(i)

\* the hide rule number i of a list: ##.s<i> in a list of kind "wide",
\* ##.s<i>, .t in a list of kind "lists", and in a list of kind "mixed"
\* ab.co##.s<i>, ~cd.co##.s<i> or ##.s<i>
HideRule(i, kind) ==
    IF kind = "lists"
    THEN CssRule("##.s, .t", SelectorOf(i) \o <<",", " ", ".", "t">>)
    ELSE IF kind = "mixed" /\ i % 3 = 0
    THEN [CssRule("ab.co##.s", SelectorOf(i)) EXCEPT !.permittedDomains = <<AbCo>>]
    ELSE IF kind = "mixed" /\ i % 5 = 0
    THEN [CssRule("~cd.co##.s", SelectorOf(i)) EXCEPT !.restrictedDomains = <<CdCo>>]
    ELSE CssRule("##.s", SelectorOf(i))

\* the entry convertLines puts into cssBlocking for that rule
HideEntry(i, kind) == convertCssFilterRule(HideRule(i, kind)).value @@ [src |-> <<i>>]

InitCompact ==
    /\ pc = "compact"
    /\ regexConfiguration = [regexStartUrl |-> URL_FILTER_REGEXP_START_URL,
                             regexSeparator |-> URL_FILTER_REGEXP_SEPARATOR]
    /\ NoCall
    /\ \E kind \in {"wide", "lists", "mixed"} : arg = [kind |-> kind, cssBlocking |-> <<>>]
    /\ out = CompactStart

CompactCssRulesLoopDo(rule) ==
    /\ arg' = [arg EXCEPT !.cssBlocking = Append(@, rule)]
    /\ out' = CompactRule(out, rule)

CompactCssRulesLoop ==
    /\ pc = "compact"
    /\ Len(arg.cssBlocking) < MaxHide
    /\ CompactCssRulesLoopDo(HideEntry(Len(arg.cssBlocking) + 1, arg.kind))
    /\ UNCHANGED <<pc, args, regexConfiguration, saved, locals, outcome, returned>>

CompactCssRulesReturn ==
    /\ pc = "compact"
    /\ out' = CompactReturn(out)
    /\ pc' = "compacted"
    /\ UNCHANGED <<args, regexConfiguration, saved, locals, outcome, returned, arg>>

NextCompact == CompactCssRulesLoop \/ CompactCssRulesReturn

SpecCompact == InitCompact /\ [][NextCompact]_vars

(***************************************************************************)
(* Properties of convertArray (Spec)                                       *)
(***************************************************************************)
\* convertArray has returned a result record
Returned == pc \in {"finally", "done"} /\ outcome = "result"

\* the ten categories in the documented order
InOrder(cb) ==
    cb["cssBlockingWide"] \o cb["cssBlockingGenericDomainSensitive"]
    \o cb["cssBlockingGenericHideExceptions"] \o cb["cssBlockingDomainSensitive"]
    \o cb["cssElemhide"] \o cb["urlBlocking"] \o cb["other"] \o cb["important"]
    \o cb["importantExceptions"] \o cb["documentExceptions"]

Hosts(trigger, key) == IF Has(trigger, key) THEN trigger[key] ELSE <<>>

\* the rule an element of rules stands for, NoRule when it stands for none
RuleOf(el) ==
    IF el.elem = "rule" THEN el.rule
    ELSE IF el.elem = "text" THEN parseAGRule(el, <<>>).rule
    ELSE NoRule

InputRules == [p \in DOMAIN rules |-> RuleOf(rules[p])]

BadFilterTexts(input) ==
    {input[p].badFilter : p \in {q \in DOMAIN input : input[q].isBadFilter}}

\* the positions of the $badfilter rules and of the rules whose ruleText is
\* one of texts
CancelledBy(input, texts) ==
    {p \in DOMAIN input :
        /\ input[p].kind # "None"
        /\ input[p].isBadFilter \/ input[p].ruleText \in texts}

\* the positions of the $badfilter rules and of the rules they cancel
Cancelled(input) == CancelledBy(input, BadFilterTexts(input))

AllEntries == InOrder(contentBlocker) \o cssBlocking \o cssExceptions \o returned.converted

Ascending(seq) == \A k, l \in DOMAIN seq : k < l => seq[k] < seq[l]

IsPrefix(a, b) == Len(a) <= Len(b) /\ SubSeq(b, 1, Len(a)) = a

\* C1: no entry of the output of convertArray has both a non-empty
\* trigger.if-domain and a non-empty trigger.unless-domain
C1_NeverBothDomains ==
    Returned =>
        \A k \in DOMAIN returned.converted :
            ~(/\ NonEmptyKey(returned.converted[k].trigger, "if-domain")
              /\ NonEmptyKey(returned.converted[k].trigger, "unless-domain"))

\* C2: when a convertArray call has ended, on whichever path, the regex
\* configuration equals the one saved when the call started, and outside a
\* call it always equals its initial value
C2_ConfigurationRestored ==
    /\ pc = "done" =>
          /\ regexConfiguration.regexStartUrl = prevRegexStartUrl
          /\ regexConfiguration.regexSeparator = prevRegexSeparator
    /\ pc \in {"idle", "done"} => regexConfiguration = DefaultRegexConfiguration

\* a call that ended by the exception createConversionResult threw
C2_RestoredAfterThrow ==
    /\ pc = "done"
    /\ outcome = "thrown"
    /\ limit.kind = "symbol"
    /\ Len(agRules) > 0
    /\ regexConfiguration = DefaultRegexConfiguration

\* C3: a rule whose ruleText a $badfilter rule of the input names, and the
\* $badfilter rule itself, is never translated: no entry anywhere comes from
\* it and no conversion error is recorded for it, wherever the $badfilter
\* rule stands in the input
C3_BadFilterCancels ==
    (AllEntries # <<>> \/ contentBlocker.errors # <<>>) =>
        With(InputRules, LAMBDA input : With(Cancelled(input), LAMBDA cancelled :
            /\ \A k \in DOMAIN AllEntries : SeqToSet(AllEntries[k].src) \cap cancelled = {}
            /\ \A k \in DOMAIN contentBlocker.errors :
                  contentBlocker.errors[k].type = "Error converting rule from"
                      => contentBlocker.errors[k].ruleText
                             \notin {input[p].ruleText : p \in cancelled}))

\* the $badfilter rule comes after the rule it cancels
C3_CancelledByLaterRule ==
    /\ Returned
    /\ rules = <<RuleElement(RBlock), RuleElement(RBadFilter)>>
    /\ agRules = <<RBlock>>
    /\ returned.totalConvertedCount = 0
    /\ returned.errorsCount = 0

\* C4: converted is the concatenation of the ten buckets in the documented
\* order, cut to a prefix when the limit applies, and within a bucket the
\* entries stand in the order of the input rules they came from
C4_CategoryOrder ==
    Returned =>
        /\ returned.converted
               = SubSeq(InOrder(contentBlocker), 1, returned.convertedCount)
        /\ \A name \in DOMAIN contentBlocker \ {"errors"} :
              Ascending(Flatten([k \in DOMAIN contentBlocker[name] |->
                                    contentBlocker[name][k].src]))

\* two rules whose entries come out in the opposite order
C4_CategoryBeforeInputOrder ==
    /\ Returned
    /\ Len(returned.converted) = 2
    /\ returned.converted[1].src = <<2>>
    /\ returned.converted[2].src = <<1>>

\* C5: totalConvertedCount >= convertedCount, with equality exactly when
\* overLimit is false, and overLimit is true exactly when the concatenated
\* sequence was truncated
C5_Counts ==
    Returned =>
        /\ returned.totalConvertedCount >= returned.convertedCount
        /\ (returned.totalConvertedCount = returned.convertedCount) <=> ~returned.overLimit
        /\ returned.overLimit <=> Len(returned.converted) < Len(InOrder(contentBlocker))
        /\ returned.convertedCount = Len(returned.converted)
        /\ returned.totalConvertedCount = Len(InOrder(contentBlocker))

C5_Truncated ==
    /\ Returned
    /\ returned.overLimit
    /\ returned.totalConvertedCount = 2
    /\ returned.convertedCount = 1

\* C6: createConversionResult, given a limit > 0 that the concatenated
\* sequence exceeds, returns exactly its first limit entries and appends
\* exactly one limit message to errors; given no limit, limit 0 or a
\* sequence of at most limit entries it truncates nothing and records no
\* message
C6_Result ==
    (pc = "result" /\ pc' = "finally" /\ outcome' = "result") =>
        /\ (limit.kind = "number" /\ limit.n > 0
              /\ Len(InOrder(contentBlocker)) > limit.n) =>
              /\ returned'.converted
                     = applyDomainWildcards(SubSeq(InOrder(contentBlocker), 1, limit.n))
              /\ contentBlocker'.errors = Append(contentBlocker.errors, LimitError(limit.n))
              /\ returned'.errorsCount = Len(contentBlocker.errors) + 1
        /\ (\/ limit.kind = "absent"
            \/ limit.kind = "number" /\ limit.n = 0
            \/ limit.kind = "number" /\ Len(InOrder(contentBlocker)) <= limit.n) =>
              /\ returned'.converted = applyDomainWildcards(InOrder(contentBlocker))
              /\ contentBlocker'.errors = contentBlocker.errors
              /\ returned'.errorsCount = Len(contentBlocker.errors)
              /\ ~returned'.overLimit

C6_LimitTruncates == [][C6_Result]_vars

C6_LimitMessage ==
    /\ pc = "finally"
    /\ outcome = "result"
    /\ limit = [kind |-> "number", n |-> 1]
    /\ Len(returned.converted) = 1
    /\ contentBlocker.errors = <<LimitError(1)>>

\* the domains the translation of the rules input computes
TranslatedDomains(input) ==
    UNION {SeqToSet(parseDomains(input[p]).included)
           \cup SeqToSet(parseDomains(input[p]).excluded)
           \cup (IF parseRuleDomain(input[p].urlRuleText).isNull THEN {}
                 ELSE {parseRuleDomain(input[p].urlRuleText).domain}) :
           p \in {q \in DOMAIN input : input[q].kind # "None"}}

\* the hosts of if-domain and unless-domain in the output
OutputHosts ==
    UNION {SeqToSet(Hosts(returned.converted[k].trigger, "if-domain"))
           \cup SeqToSet(Hosts(returned.converted[k].trigger, "unless-domain")) :
           k \in DOMAIN returned.converted}

\* C8: every host of if-domain and unless-domain in the output begins with
\* "*", and what follows that one "*" is a lowercased punycode domain the
\* translation computed, whether or not the output was truncated
C8_Wildcards ==
    (Returned /\ OutputHosts # {}) =>
        With(TranslatedDomains(InputRules), LAMBDA domains :
            \A host \in OutputHosts :
                /\ Head(host) = "*"
                /\ Tail(host) \in domains
                /\ Tail(host) = ToLowerCase(Tail(host))
                /\ ~HasNonAscii(Tail(host)))

C8_WildcardAfterTruncation ==
    /\ Returned
    /\ returned.overLimit
    /\ Len(returned.converted) = 1
    /\ Has(returned.converted[1].trigger, "unless-domain")
    /\ returned.converted[1].trigger["unless-domain"]
           = << <<"*", "x", "n", "-", "-", "b", ".", "c", "o">> >>

EntryCount(cb, blocking, exceptions) == Len(InOrder(cb)) + Len(blocking) + Len(exceptions)

RemoveAt(s, p) == [k \in 1..(Len(s) - 1) |-> IF k < p THEN s[k] ELSE s[k + 1]]

\* the buckets without the errors and without the bookkeeping of positions
Unsourced(cb) ==
    [name \in DOMAIN cb \ {"errors"} |->
        [k \in DOMAIN cb[name] |->
            [trigger |-> cb[name][k].trigger, action |-> cb[name][k].action]]]

\* the rule at position p reaches translation and its translation fails
FailsTranslation(input, p) ==
    /\ input[p].kind # "None"
    /\ p \notin Cancelled(input)
    /\ convertAGRuleToCB(input[p]).threw

\* one iteration of the translation loop
C10_Iteration ==
    (pc = "translate" /\ iAg' = iAg + 1) =>
        /\ pc' = "translate"
        /\ \A name \in DOMAIN contentBlocker :
              IsPrefix(contentBlocker[name], contentBlocker'[name])
        /\ IsPrefix(cssBlocking, cssBlocking')
        /\ IsPrefix(cssExceptions, cssExceptions')
        /\ IF agRules[iAg + 1].ruleText \in SeqToSet(badFilterExceptions)
           THEN /\ EntryCount(contentBlocker', cssBlocking', cssExceptions')
                       = EntryCount(contentBlocker, cssBlocking, cssExceptions)
                /\ contentBlocker'.errors = contentBlocker.errors
           ELSE \/ /\ EntryCount(contentBlocker', cssBlocking', cssExceptions')
                          = EntryCount(contentBlocker, cssBlocking, cssExceptions) + 1
                   /\ contentBlocker'.errors = contentBlocker.errors
                   /\ agRules[iAg + 1].kind \notin {"Script", "Scriptlet", "Composite"}
                \/ /\ EntryCount(contentBlocker', cssBlocking', cssExceptions')
                          = EntryCount(contentBlocker, cssBlocking, cssExceptions)
                   /\ Len(contentBlocker'.errors) = Len(contentBlocker.errors) + 1
                   /\ contentBlocker'.errors[Len(contentBlocker'.errors)].ruleText
                          = agRules[iAg + 1].ruleText

\* what convertLines returns is what it returns without the failing rule
C10_AsIfAbsent ==
    pc = "result" =>
        With(InputRules, LAMBDA input :
            \A p \in DOMAIN rules :
                FailsTranslation(input, p) =>
                    Unsourced(contentBlocker)
                        = Unsourced(convertLines(RemoveAt(rules, p), optimize).value))

C11_Finish ==
    (pc = "translate" /\ pc' = "result") =>
        Len(contentBlocker'.errors)
            = Len(contentBlocker.errors) + (Len(cssBlocking) - Len(cssBlocking'))

\* C11: every hide entry that the application of the CSS exceptions drops,
\* because it ends with both if-domain and unless-domain non-empty, adds one
\* entry to errors
C11_DropsAreErrors == [][C11_Finish]_vars

\* the call has ended: it returned or an exception left it
Ended == pc \in {"finally", "done"}

\* what a returned record holds: errorsCount is the number of messages in
\* errors, and converted is made of entries of the ten buckets, of which
\* errors is none
C12_Record ==
    /\ DOMAIN returned = {"totalConvertedCount", "convertedCount", "errorsCount",
                          "overLimit", "converted"}
    /\ returned.errorsCount = Len(contentBlocker.errors)
    /\ IsPrefix(returned.converted, InOrder(contentBlocker))
    /\ \A k \in DOMAIN returned.converted :
          returned.converted[k] \notin SeqToSet(contentBlocker.errors)

\* C12 as stated: every call, also one with an empty rules, returns a record
\* whose errorsCount is the number of messages in errors and whose converted
\* holds no error message
C12_AlwaysARecord == Ended => (outcome = "result" /\ C12_Record)

\* C12: a call with null or empty rules returns null and no record; a call
\* with other rules returns a record whose errorsCount is the number of
\* messages in errors and whose converted holds no error message, unless an
\* undefined element of rules or a limit that cannot be compared with a
\* number makes it end by a TypeError
C12_RecordOrNull ==
    Ended =>
        /\ outcome = "null" <=> (rulesNull \/ rules = <<>>)
        /\ outcome = "thrown" =>
              \/ \E k \in DOMAIN rules : rules[k].elem = "undefined"
              \/ limit.kind = "symbol"
        /\ outcome \in {"null", "thrown", "result"}
        /\ outcome = "result" => C12_Record

\* a record returned with the limit message counted and one entry of two
C12_RecordWithErrors ==
    /\ Returned
    /\ returned.overLimit
    /\ returned.errorsCount = 1
    /\ returned.convertedCount = 1
    /\ contentBlocker.errors = <<LimitError(1)>>
    /\ Len(InOrder(contentBlocker)) = 2

\* C14: createRule returns a rule or null and never raises, so the only
\* error parseAGRule records for a line is the one it raises itself when
\* createRule returned null, also for a line the normalizer rewrote into a
\* text the builder rejects
C14_CreateRuleNeverRaises ==
    \A k \in DOMAIN contentBlocker.errors :
        contentBlocker.errors[k].type = "Error creating rule from"
            => contentBlocker.errors[k].cause = "Cannot create rule from"

\* fast and slow are what convertLines returns for the same rules with
\* optimize true and with optimize false
C15_OnlyWideDiffers(fast, slow) ==
    /\ fast.cssBlockingWide = <<>>
    /\ \A name \in DOMAIN fast \ {"cssBlockingWide"} : fast[name] = slow[name]
    /\ createConversionResult(fast, [kind |-> "number", n |-> 0]).value
           .returned.totalConvertedCount
       = createConversionResult(slow, [kind |-> "number", n |-> 0]).value
             .returned.totalConvertedCount - Len(slow.cssBlockingWide)

\* C15: for the same rules and limit 0, the run with optimize = true has an
\* empty cssBlockingWide, the other nine buckets and the errors of the run
\* with optimize = false, and a totalConvertedCount smaller by the number
\* of wide entries of that run
C15_OptimizeDropsWide ==
    (pc = "result" /\ limit = [kind |-> "number", n |-> 0] /\ optimize) =>
        C15_OnlyWideDiffers(contentBlocker, convertLines(rules, FALSE).value)

\* an optimized run of a wide hide rule and a blocking rule
C15_WideDiscarded ==
    /\ pc = "result"
    /\ limit = [kind |-> "number", n |-> 0]
    /\ optimize
    /\ rules = <<RuleElement(CWide), RuleElement(RBlock)>>
    /\ contentBlocker.cssBlockingWide = <<>>
    /\ Len(contentBlocker.urlBlocking) = 1
    /\ Len(convertLines(rules, FALSE).value.cssBlockingWide) = 1

\* the entry is a CSS exception
IsCssException(entry) ==
    /\ entry.action["type"] = "ignore-previous-rules"
    /\ Hosts(entry.action, "selector") # <<>>

\* the rule at position p is a #@# rule that is translated, and it has no
\* permitted domain or no hide rule of the input has its selector
IdleException(input, p) ==
    /\ input[p].kind = "Css"
    /\ input[p].whiteListRule
    /\ p \notin Cancelled(input)
    /\ ~convertAGRuleToCB(input[p]).threw
    /\ \/ input[p].permittedDomain = <<>> /\ input[p].permittedDomains = <<>>
       \/ \A q \in DOMAIN input :
             ~(/\ input[q].kind = "Css"
               /\ ~input[q].whiteListRule
               /\ input[q].cssSelector = input[p].cssSelector)

\* what convertLines returns is what it returns without the exception
C23_NoTrace ==
    pc = "result" =>
        With(InputRules, LAMBDA input :
            \A p \in DOMAIN rules :
                IdleException(input, p) =>
                    With(convertLines(RemoveAt(rules, p), optimize).value, LAMBDA without :
                        /\ Unsourced(contentBlocker) = Unsourced(without)
                        /\ contentBlocker.errors = without.errors))

\* C23: no entry of the buckets or of the output of convertArray is a CSS
\* exception, and an exception that has no if-domain, or whose selector is
\* the selector of no hide rule, changes neither the buckets nor the errors
C23_ExceptionsConsumed ==
    /\ \A k \in DOMAIN InOrder(contentBlocker) : ~IsCssException(InOrder(contentBlocker)[k])
    /\ \A k \in DOMAIN returned.converted : ~IsCssException(returned.converted[k])
    /\ C23_NoTrace

\* ##.ad and #@#.ad converted: the hide entry is emitted as a wide entry
C23_ExceptionWithoutDomain ==
    /\ Returned
    /\ rules = <<RuleElement(CWide), RuleElement(CExceptionAll)>>
    /\ ~optimize
    /\ Len(cssExceptions) = 1
    /\ Len(returned.converted) = 1
    /\ ~Has(returned.converted[1].trigger, "unless-domain")
    /\ returned.errorsCount = 0

(***************************************************************************)
(* Properties of convertUrlFilterRule (SpecUrl)                            *)
(***************************************************************************)
\* C9: convertUrlFilterRule throws for every URL rule that is a CSP rule,
\* has a replace option, permits exactly OBJECT, OBJECT_SUBREQUEST or WEBRTC,
\* or enables exactly JSINJECT, whatever its other fields are
C9_PreRejects ==
    (/\ pc = "converted"
     /\ \/ arg.csp
        \/ arg.replace
        \/ arg.permittedContentType \in {{"OBJECT"}, {"OBJECT_SUBREQUEST"}, {"WEBRTC"}}
        \/ arg.enabledOptions = {"JSINJECT"})
        => out.threw

DocumentBlockingError ==
    "Document blocking rules are allowed only along with third-party or if-domain modifiers"

\* the entry blocks documents without an if-domain and without third-party
BlocksDocuments(entry) ==
    /\ entry.action["type"] = "block"
    /\ "document" \in SeqToSet(Hosts(entry.trigger, "resource-type"))
    /\ ~Has(entry.trigger, "if-domain")
    /\ "third-party" \notin SeqToSet(Hosts(entry.trigger, "load-type"))

\* the URL rule asks to block sub-documents on every domain and for every
\* party: its entry would block documents
AsksToBlockDocuments(rule) ==
    /\ ~rule.whiteListRule
    /\ ~(rule.permittedContentType = ContentTypeALL /\ rule.restrictedContentType = {})
    /\ rule.permittedContentType \in {ContentTypeALL, {"SUBDOCUMENT"}}
    /\ "SUBDOCUMENT" \notin rule.restrictedContentType
    /\ ~rule.blockPopups
    /\ rule.permittedDomains = <<>>
    /\ ~(rule.checkThirdParty /\ rule.thirdParty)

\* C13: no entry translated from a URL rule blocks documents without an
\* if-domain or a third-party load-type; the translation of a rule that
\* asks for such an entry fails, with the error of this check unless an
\* earlier check failed first; and the check fails for no whitelist rule
C13_DocumentBlocking ==
    pc = "converted" =>
        /\ ~out.threw => ~BlocksDocuments(out.value)
        /\ AsksToBlockDocuments(arg) => out.threw
        /\ (out.threw /\ out.cause = DocumentBlockingError) => AsksToBlockDocuments(arg)
        /\ arg.whiteListRule => ~(out.threw /\ out.cause = DocumentBlockingError)

\* a sub-document blocking rule rejected by the check
C13_Rejected ==
    /\ pc = "converted"
    /\ out.threw
    /\ out.cause = DocumentBlockingError
    /\ arg.permittedContentType = {"SUBDOCUMENT"}
    /\ arg.checkThirdParty

\* the entry convertUrlFilterRule has built when it calls
\* checkWhiteListExceptions
EntryBeforeRewrite(rule) ==
    Then(validateRegExp(createUrlFilterString(rule)), LAMBDA urlFilter :
    Then(addResourceType(rule,
             setWhiteList(rule, [trigger |-> ("url-filter" :> urlFilter),
                                 action |-> ("type" :> "block")])), LAMBDA result :
    Then(addDomainOptions(addMatchCase(addThirdParty(result.trigger, rule), rule), rule),
         LAMBDA trigger : Ok([result EXCEPT !.trigger = trigger]))))

SameKey(a, b, key) == Has(a, key) = Has(b, key) /\ (Has(a, key) => a[key] = b[key])

\* the whitelist rules checkWhiteListExceptions rewrites
IsRewritten(rule) ==
    /\ rule.whiteListRule
    /\ \/ IsDocumentWhiteList(rule)
       \/ \E option \in {"URLBLOCK", "GENERICBLOCK", "GENERICHIDE", "ELEMHIDE"} :
             isSingleOption(rule, option)

\* C16: the entry of a whitelist rule that is a document whitelist or has
\* the sole option URLBLOCK, GENERICBLOCK, GENERICHIDE or ELEMHIDE has, when
\* the rule's domain is parsed and its path is absent, ^ or /, if-domain =
\* [domain], no unless-domain, the any-URL url-filter and no resource-type;
\* otherwise its url-filter, if-domain and unless-domain are those it had
\* before the rewrite step
C16_WhiteListRewrite ==
    (pc = "converted" /\ IsRewritten(arg) /\ ~out.threw) =>
        With(parseRuleDomain(arg.urlRuleText), LAMBDA parsed :
        With(out.value.trigger, LAMBDA trigger :
            IF ~parsed.isNull /\ (parsed.pathIsNull \/ parsed.path \in {<<"^">>, <<"/">>})
            THEN /\ Has(trigger, "if-domain")
                 /\ trigger["if-domain"] = <<parsed.domain>>
                 /\ ~Has(trigger, "unless-domain")
                 /\ trigger["url-filter"] = URL_FILTER_ANY_URL
                 /\ ~Has(trigger, "resource-type")
            ELSE With(EntryBeforeRewrite(arg).value.trigger, LAMBDA before :
                     \A key \in {"url-filter", "if-domain", "unless-domain"} :
                         SameKey(trigger, before, key))))

(***************************************************************************)
(* Properties of createUrlFilterString (SpecFilter)                        *)
(***************************************************************************)
AnyUrl == <<"^", "[", "h", "t", "p", "s", "w", "]", "+", ":", "\\", "/", "\\", "/">>

WsAnyUrl == <<"^", "w", "s", "s", "?", ":", "\\", "/", "\\", "/">>

\* the url-filter of a rule whose getUrlRegExpSource() is source
FilterOfSource(rule, source) ==
    IF source = <<>> THEN AnyUrl
    ELSE IF /\ rule.permittedContentType = {"WEBSOCKET"}
            /\ ~StartWith(source, <<"^">>)
            /\ ~StartWith(source, <<"w", "s">>)
    THEN WsAnyUrl \o <<".", "*">> \o source
    ELSE source

\* C21: createUrlFilterString returns, by the first case that applies, for
\* the url texts ||*, empty, * and |* the WebSocket any-URL regex when
\* permittedContentType is exactly WEBSOCKET and the any-URL regex
\* otherwise; for a regex rule with urlRegExp set its source; for an empty
\* getUrlRegExpSource() the any-URL regex; for a WEBSOCKET rule whose
\* source starts neither with ^ nor with ws the WebSocket any-URL regex,
\* .* and the source; otherwise the source; and never the empty string
C21_UrlFilterCases ==
    pc = "filtered" =>
        /\ out = IF arg.urlRuleText \in {<<"|", "|", "*">>, <<>>, <<"*">>, <<"|", "*">>}
                 THEN IF arg.permittedContentType = {"WEBSOCKET"} THEN WsAnyUrl ELSE AnyUrl
                 ELSE IF arg.isRegexRule /\ arg.urlRegExp # <<>> THEN arg.urlRegExp
                 ELSE FilterOfSource(arg, GetUrlRegExpSource(arg))
        /\ out # <<>>

\* a WEBSOCKET rule for ||ab.co^, whose source starts with ^, and one for
\* ab.co, whose source gets the WebSocket prefix
C21_WebSocketPrefixed ==
    /\ pc = "filtered"
    /\ arg.permittedContentType = {"WEBSOCKET"}
    /\ arg.urlRuleText = AbCo
    /\ ~arg.isRegexRule
    /\ out = WsAnyUrl \o <<".", "*", "a", "b", "\\", ".", "c", "o">>

(***************************************************************************)
(* Properties of addResourceType (SpecType)                                *)
(***************************************************************************)
\* the documented mapping, in its order: the content types and their name
TypeNames ==
    << [types |-> {"IMAGE"}, name |-> "image"],
       [types |-> {"STYLESHEET"}, name |-> "style-sheet"],
       [types |-> {"SCRIPT"}, name |-> "script"],
       [types |-> {"MEDIA"}, name |-> "media"],
       [types |-> {"XMLHTTPREQUEST", "OTHER", "WEBSOCKET"}, name |-> "raw"],
       [types |-> {"FONT"}, name |-> "font"],
       [types |-> {"SUBDOCUMENT"}, name |-> "document"] >>

\* the names of the content types the rule matches
MatchingNames(rule) ==
    With(SelectSeq(TypeNames, LAMBDA n : \E t \in n.types : CheckContentTypeMask(rule, t)),
         LAMBDA matching : [k \in DOMAIN matching |-> matching[k].name])

\* the list the mapping gives the rule
ReferenceTypes(rule) == IF rule.blockPopups THEN <<"popup">> ELSE MatchingNames(rule)

\* C22: when addResourceType returns, the entry has no resource-type if
\* permittedContentType is ALL and restrictedContentType is 0; otherwise
\* its resource-type is the list of the matching names in the order image,
\* style-sheet, script, media, raw, font, document, with one raw for
\* XMLHTTPREQUEST, OTHER and WEBSOCKET, or exactly [popup] for a $popup
\* rule, and there is no key when that list is empty
C22_ResourceTypes ==
    (pc = "typed" /\ ~out.threw) =>
        IF arg.permittedContentType = ContentTypeALL /\ arg.restrictedContentType = {}
        THEN ~Has(out.value.trigger, "resource-type")
        ELSE IF ReferenceTypes(arg) = <<>>
        THEN ~Has(out.value.trigger, "resource-type")
        ELSE /\ Has(out.value.trigger, "resource-type")
             /\ out.value.trigger["resource-type"] = ReferenceTypes(arg)

\* a $popup rule for sub-documents and images
C22_PopupOnly ==
    /\ pc = "typed"
    /\ arg.blockPopups
    /\ arg.permittedContentType = {"SUBDOCUMENT", "IMAGE"}
    /\ ~out.threw
    /\ out.value.trigger["resource-type"] = <<"popup">>

(***************************************************************************)
(* Properties of the routing of one entry (SpecRoute)                      *)
(***************************************************************************)
Destinations == SeqToSet(BucketOrder) \cup {"cssBlocking", "cssExceptions"}

\* the entries st holds at a destination
At(st, name) ==
    IF name \in {"cssBlocking", "cssExceptions"} THEN st[name] ELSE st.contentBlocker[name]

\* the destination the first matching predicate gives the entry of agRule
FirstMatch(agRule, entry) ==
    IF entry.action["type"] = "block"
    THEN IF agRule.isImportant THEN "important" ELSE "urlBlocking"
    ELSE IF entry.action["type"] = "css-display-none" THEN "cssBlocking"
    ELSE IF entry.action["type"] = "ignore-previous-rules"
            /\ Hosts(entry.action, "selector") # <<>>
    THEN "cssExceptions"
    ELSE IF entry.action["type"] = "ignore-previous-rules"
            /\ agRule.enabledOptions = {"GENERICHIDE"}
    THEN "cssBlockingGenericHideExceptions"
    ELSE IF entry.action["type"] = "ignore-previous-rules"
            /\ agRule.enabledOptions = {"ELEMHIDE"}
    THEN "cssElemhide"
    ELSE IF agRule.isImportant THEN "importantExceptions"
    ELSE IF IsDocumentWhiteList(agRule) THEN "documentExceptions"
    ELSE "other"

\* C17: a translated entry is at exactly one destination, the one the first
\* matching predicate of the documented order gives; a rule whose
\* translation fails leaves an error and no entry
C17_Routing ==
    pc = "routed" =>
        IF out.contentBlocker.errors # <<>>
        THEN \A name \in Destinations : At(out, name) = <<>>
        ELSE \E name \in Destinations :
                /\ Len(At(out, name)) = 1
                /\ \A other \in Destinations \ {name} : At(out, other) = <<>>
                /\ name = FirstMatch(arg, At(out, name)[1])

\* an important whitelist rule with the sole option GENERICHIDE
C17_ImportantGenericHide ==
    /\ pc = "routed"
    /\ arg.isImportant
    /\ arg.whiteListRule
    /\ arg.enabledOptions = {"GENERICHIDE"}
    /\ Len(out.contentBlocker.cssBlockingGenericHideExceptions) = 1
    /\ out.contentBlocker.importantExceptions = <<>>

(***************************************************************************)
(* Properties of the CSS passes (SpecCss)                                  *)
(***************************************************************************)
\* the if-domain hosts of the exceptions with the selector of the hide
\* entry, in exception order
ExceptionHosts(hide, exceptions) ==
    Flatten([k \in DOMAIN exceptions |->
                IF exceptions[k].action["selector"] = hide.action["selector"]
                THEN Hosts(exceptions[k].trigger, "if-domain")
                ELSE <<>>])

\* the entries of entries made from the rule that hide was made from
Made(entries, hide) == SelectSeq(entries, LAMBDA e : e.src = hide.src)

\* C18: after applyCssExceptions a hide entry without if-domain has every
\* if-domain host of every exception with its selector appended, in
\* exception order, to its unless-domain, and has its trigger unchanged
\* when there is no such host; entries that so have an unless-domain are
\* emitted in cssBlockingGenericDomainSensitive, the others in a wide entry
C18_ExceptionHostsAppended ==
    pc = "applied" =>
        \A k \in DOMAIN arg.cssBlocking :
            With(arg.cssBlocking[k], LAMBDA hide :
            With(ExceptionHosts(arg.cssBlocking[k], arg.cssExceptions), LAMBDA hosts :
                ~Has(hide.trigger, "if-domain") =>
                    /\ Made(out.cssBlocking, hide)
                         = << [hide EXCEPT !.trigger =
                                  IF hosts = <<>> THEN @
                                  ELSE SetKey(@, "unless-domain",
                                              Hosts(@, "unless-domain") \o hosts)] >>
                    /\ Made(out.cssCompact.cssBlockingGenericDomainSensitive, hide)
                         = IF hosts = <<>> /\ ~Has(hide.trigger, "unless-domain") THEN <<>>
                           ELSE Made(out.cssBlocking, hide)
                    /\ Made(out.cssCompact.cssBlockingDomainSensitive, hide) = <<>>))

\* ##.ad with s.ab.co,cd.co#@#.ad and ab.co#@#.ad
C18_GenericHideRestricted ==
    /\ pc = "applied"
    /\ Len(arg.cssBlocking) = 1
    /\ ~Has(arg.cssBlocking[1].trigger, "unless-domain")
    /\ Len(out.cssCompact.cssBlockingGenericDomainSensitive) = 1
    /\ out.cssCompact.cssBlockingGenericDomainSensitive[1].trigger["unless-domain"]
           = <<CdCo, SubAbCo, AbCo>>
    /\ out.cssCompact.cssBlockingWide = <<>>

\* the hosts of the exceptions with the selector of the hide entry of which
\* one of the entry's permitted domains is a substring
ApplicableHosts(hide, exceptions) ==
    SelectSeq(ExceptionHosts(hide, exceptions),
              LAMBDA host : \E p \in DOMAIN hide.trigger["if-domain"] :
                               IndexOf(host, hide.trigger["if-domain"][p]) >= 0)

\* C19: a hide entry with a non-empty if-domain is dropped from the output
\* when an exception with its selector has a host of which one of its
\* permitted domains is a substring, and survives with its trigger
\* unchanged otherwise
C19_RestrictedHideDropped ==
    pc = "applied" =>
        \A k \in DOMAIN arg.cssBlocking :
            With(arg.cssBlocking[k], LAMBDA hide :
                NonEmptyKey(hide.trigger, "if-domain") =>
                    IF ApplicableHosts(hide, arg.cssExceptions) # <<>>
                    THEN /\ Made(out.cssBlocking, hide) = <<>>
                         /\ \A name \in DOMAIN out.cssCompact :
                               Made(out.cssCompact[name], hide) = <<>>
                    ELSE /\ Made(out.cssBlocking, hide) = <<hide>>
                         /\ Made(out.cssCompact.cssBlockingDomainSensitive, hide) = <<hide>>)

\* ab.co##.ad dropped by s.ab.co#@#.ad while cd.co##.ad survives it
C19_DroppedAndKept ==
    /\ pc = "applied"
    /\ Len(arg.cssBlocking) = 2
    /\ Hosts(arg.cssBlocking[1].trigger, "if-domain") = <<AbCo>>
    /\ Hosts(arg.cssBlocking[2].trigger, "if-domain") = <<CdCo>>
    /\ Len(arg.cssExceptions) = 1
    /\ Hosts(arg.cssExceptions[1].trigger, "if-domain") = <<SubAbCo>>
    /\ out.cssBlocking = <<arg.cssBlocking[2]>>

(***************************************************************************)
(* Properties of compactCssRules (SpecCompact)                             *)
(***************************************************************************)
Commas(selector) == Cardinality({i \in DOMAIN selector : selector[i] = ","})

IsWideHide(rule) == ~Has(rule.trigger, "if-domain") /\ ~Has(rule.trigger, "unless-domain")

WideInputs == SelectSeq(arg.cssBlocking, IsWideHide)

\* C7: every wide entry has at most 249 commas in its selector, n wide hide
\* entries give ceil(n / 250) wide entries, none empty, all but the last of
\* 250 selectors, and the selectors of the batches joined are the input's
\* wide selectors joined, in order
C7_WideBatches ==
    pc = "compacted" =>
        /\ \A k \in DOMAIN out.cssBlockingWide :
              /\ Commas(out.cssBlockingWide[k].action["selector"]) <= 249
              /\ out.cssBlockingWide[k].action["selector"] # <<>>
        /\ Len(out.cssBlockingWide) = (Len(WideInputs) + 249) \div 250
        /\ \A k \in 1..(Len(out.cssBlockingWide) - 1) :
              Commas(out.cssBlockingWide[k].action["selector"]) = 249
        /\ JoinCommaSpace([k \in DOMAIN out.cssBlockingWide |->
                              out.cssBlockingWide[k].action["selector"]])
               = JoinCommaSpace([k \in DOMAIN WideInputs |->
                                    WideInputs[k].action["selector"]])

\* C20: compactCssRules puts the entries with a non-empty if-domain,
\* unchanged and in order, into cssBlockingDomainSensitive, those with a
\* non-empty unless-domain and no if-domain into
\* cssBlockingGenericDomainSensitive, and makes the wide entries of the
\* selectors of the entries with neither and of no other; every wide entry
\* has url-filter .*, action.type css-display-none and no if-domain or
\* unless-domain
C20_ThreeSets ==
    pc = "compacted" =>
        /\ out.cssBlockingDomainSensitive
             = SelectSeq(arg.cssBlocking, LAMBDA r : NonEmptyKey(r.trigger, "if-domain"))
        /\ out.cssBlockingGenericDomainSensitive
             = SelectSeq(arg.cssBlocking,
                         LAMBDA r : /\ NonEmptyKey(r.trigger, "unless-domain")
                                    /\ ~NonEmptyKey(r.trigger, "if-domain"))
        /\ With(WideInputs, LAMBDA wide :
              /\ Flatten([k \in DOMAIN out.cssBlockingWide |-> out.cssBlockingWide[k].src])
                   = [k \in DOMAIN wide |-> wide[k].src[1]]
              /\ JoinCommaSpace([k \in DOMAIN out.cssBlockingWide |->
                                    out.cssBlockingWide[k].action["selector"]])
                   = JoinCommaSpace([k \in DOMAIN wide |-> wide[k].action["selector"]]))
        /\ \A k \in DOMAIN out.cssBlockingWide :
              /\ out.cssBlockingWide[k].trigger = ("url-filter" :> <<".", "*">>)
              /\ out.cssBlockingWide[k].action["type"] = "css-display-none"

\* fifteen hide entries of the three kinds compacted
C20_MixedCompacted ==
    /\ pc = "compacted"
    /\ arg.kind = "mixed"
    /\ Len(arg.cssBlocking) = 15
    /\ Len(out.cssBlockingDomainSensitive) = 5
    /\ Len(out.cssBlockingGenericDomainSensitive) = 2
    /\ Len(out.cssBlockingWide) = 1

=============================================================================
